------------------------------ MODULE FrontDoor ------------------------------
(***************************************************************************)
(* The settings file (src/src/webapp_config.py), who reads and writes it   *)
(* and when, and what a request meets before it reaches a route: the       *)
(* middlewares of src/src/server.py and of the admin sub-app               *)
(* (auth_middleware, cors_policy, trace_id_middleware) and the error       *)
(* envelope (routes/anthropic_errors).                                     *)
(***************************************************************************)
EXTENDS Naturals, Sequences

CONSTANTS TokenValues,  \* tokens that a person or a tray may choose
          NoToken,
          PageOrigins,  \* origins that a person may configure
          NoOrigin

ASSUME DoorAssumption == NoToken \notin TokenValues /\ NoOrigin \notin PageOrigins \cup {"loopback"}

VARIABLES file,     \* webapp_config.json
          loaded,   \* what the tray's ensure_auth_token has loaded, until it saves
          app,      \* app.state.webapp_config of the hub
          admin,    \* app.state.webapp_config of the admin sub-app
          hubUp,    \* the hub's start
          handed,   \* a token that the login handed out
          same,     \* history: the file is as it was when the hub first read it
          chosen,   \* history: the origins that the person last chose
          excused   \* history: the tray read a file that was being written, or that was written meanwhile

doorVars == <<file, loaded, app, admin, hubUp, handed, same, chosen, excused>>

NoSettings == [token |-> NoToken, origins |-> {}]
Nothing == [token |-> NoToken, origins |-> {NoOrigin}]  \* nothing is loaded

DoorInit ==
    /\ file = [state |-> "absent", token |-> NoToken, origins |-> {}]
    /\ loaded = Nothing
    /\ app = NoSettings
    /\ admin = NoSettings
    /\ hubUp = "down"
    /\ handed = NoToken
    /\ same = FALSE
    /\ chosen = {}
    /\ excused = FALSE

-----------------------------------------------------------------------------
(* The file *)

\* load_webapp_config: an absent or unreadable file gives the defaults.
Loaded == IF file.state = "whole" THEN [token |-> file.token, origins |-> file.origins]
                                  ELSE NoSettings

\* Any read may fail, and then gives the defaults too.
MayLoad == {Loaded, NoSettings}

\* An editor writes in place: the file is empty first (external).
PersonOpens ==
    /\ file.state # "half"
    /\ file' = [file EXCEPT !.state = "half"]
    /\ same' = FALSE
    /\ excused' = (excused \/ loaded # Nothing)
    /\ UNCHANGED <<loaded, app, admin, hubUp, handed, chosen>>

PersonWrites(token, origins) ==
    /\ file.state = "half"
    /\ file' = [state |-> "whole", token |-> token, origins |-> origins]
    /\ chosen' = origins
    /\ excused' = (loaded # Nothing)
    /\ same' = FALSE
    /\ UNCHANGED <<loaded, app, admin, hubUp, handed>>

\* ensure_auth_token in TrayApp's constructor: it loads ...
TrayLoads ==
    /\ loaded = Nothing
    /\ loaded' \in {cfg \in MayLoad : cfg.token = NoToken}
    /\ excused' = (excused \/ file.state = "half" \/ loaded' # Loaded)
    /\ UNCHANGED <<file, app, admin, hubUp, handed, same, chosen>>

\* Mutant: only the token is saved.
TraySavesToken(token) ==
    /\ loaded # Nothing
    /\ file' = [state |-> "whole", token |-> token, origins |-> {}]
    /\ loaded' = Nothing
    /\ same' = FALSE
    /\ UNCHANGED <<app, admin, hubUp, handed, chosen, excused>>

\* ... and, as there is no token, saves the whole of it with a fresh one.
TraySaves(token) ==
    /\ loaded # Nothing
    /\ file' = [state |-> "whole", token |-> token, origins |-> loaded.origins]
    /\ loaded' = Nothing
    /\ same' = FALSE
    /\ UNCHANGED <<app, admin, hubUp, handed, chosen, excused>>

-----------------------------------------------------------------------------
(* The hub's two copies *)

\* The import of src.server reads it for the hub ...
HubLoads ==
    /\ hubUp = "down"
    /\ app' \in MayLoad
    /\ hubUp' = "importing"
    /\ same' = (app' = Loaded)
    /\ UNCHANGED <<file, loaded, admin, handed, chosen, excused>>

\* Mutant: the sub-app starts with the defaults.
AdminLoadsNothing ==
    /\ hubUp = "importing"
    /\ admin' = NoSettings
    /\ hubUp' = "up"
    /\ UNCHANGED <<file, loaded, app, handed, same, chosen, excused>>

\* ... and create_app for the sub-app.
AdminLoads ==
    /\ hubUp = "importing"
    /\ admin' \in MayLoad
    /\ hubUp' = "up"
    /\ same' = (same /\ admin' = Loaded)
    /\ UNCHANGED <<file, loaded, app, handed, chosen, excused>>

DoorHubStops ==
    /\ hubUp # "down"
    /\ hubUp' = "down"
    /\ handed' = NoToken
    /\ UNCHANGED <<file, loaded, app, admin, same, chosen, excused>>

\* login, with the right password: the sub-app's copy of the token.
HandsToken ==
    /\ hubUp = "up"
    /\ admin.token # NoToken
    /\ handed' = admin.token
    /\ UNCHANGED <<file, loaded, app, admin, hubUp, same, chosen, excused>>

DoorNext ==
    \/ PersonOpens \/ TrayLoads \/ HubLoads \/ AdminLoads \/ DoorHubStops \/ HandsToken
    \/ \E token \in TokenValues \cup {NoToken}, origins \in SUBSET PageOrigins :
           PersonWrites(token, origins)
    \/ \E token \in TokenValues : TraySaves(token)

DoorSpec == DoorInit /\ [][DoorNext]_doorVars

-----------------------------------------------------------------------------
(* A request *)

\* where the connection comes from, the page that sent it, the path ("chat": the
\* chat completions and transcriptions), the credential, a preflight or a call, and what the route makes of it.
HttpRequests ==
    [peer : {"pc", "listed", "proxy", "else"}, origin : {NoOrigin, "loopback"} \cup PageOrigins,
     path : {"messages", "chat", "api", "static", "exempt"}, token : TokenValues \cup {NoToken},
     preflight : BOOLEAN, outcome : {"fine", "raises", "crashes"}]

\* resolve_allowed_origins and LOOPBACK_ORIGIN_REGEX
AllowedOrigin(cfg, r) == r.origin = "loopback" \/ r.origin \in cfg.origins

\* is_pc_itself: a loopback connection without a proxy's header, to a loopback
\* name, and from no page but a loopback or configured one.
IsPcItself(cfg, r) == r.peer = "pc" /\ (r.origin = NoOrigin \/ AllowedOrigin(cfg, r))

\* _caller_is_trusted
Trusted(cfg, token, r) ==
    \/ IsPcItself(cfg, r)
    \/ r.peer = "listed"
    \/ token # NoToken /\ r.token = token

\* What _hub_get_token may give a request: it reads the file each time, and
\* gives no token when that read fails.
HubTokens == {cfg.token : cfg \in MayLoad}

ApiAdmits(token, r) == r.path \in {"static", "exempt"} \/ Trusted(app, token, r)
AdminAdmits(r)      == r.path \in {"static", "exempt"} \/ Trusted(admin, admin.token, r)

-----------------------------------------------------------------------------
(* The layers of the hub's application, and the response that comes out *)

\* Mutant: CORS is added before the gate.
CorsFirst == <<"observatory", "cors", "gate", "trace">>

\* The order of the add_middleware calls; the last one is the outermost.
Added == <<"observatory", "gate", "trace", "cors">>

Bare(status) == [status |-> status, cors |-> FALSE, ids |-> 0, version |-> FALSE,
                 envelope |-> FALSE, recorded |-> FALSE]

\* A route, with install_anthropic_error_handlers around it.
Route(r) == IF r.outcome = "crashes" THEN Bare(500)
            ELSE IF r.outcome = "fine" THEN Bare(200)
            ELSE [Bare(400) EXCEPT !.envelope = (r.path = "messages")]

\* CORSMiddleware (external) answers a preflight itself.
Cors(inner, r) ==
    IF r.origin = NoOrigin THEN inner
    ELSE IF r.preflight
    THEN IF AllowedOrigin(app, r) THEN [Bare(200) EXCEPT !.cors = TRUE] ELSE Bare(400)
    ELSE [inner EXCEPT !.cors = AllowedOrigin(app, r)]

\* TraceIdHeaderMiddleware
Trace(inner, r) ==
    IF r.path = "static" THEN inner
    ELSE [inner EXCEPT !.ids = IF @ = 0 THEN 1 ELSE @, !.version = (r.path = "messages")]

\* ParentBearerTokenMiddleware
Gate(inner, token, r) == IF ApiAdmits(token, r) THEN inner ELSE Bare(401)

\* ObservatoryMiddleware
Observed(inner, r) == [inner EXCEPT !.recorded = (r.path \in {"messages", "chat"})]

Layer(name, inner, token, r) ==
    CASE name = "cors" -> Cors(inner, r)
      [] name = "trace" -> Trace(inner, r)
      [] name = "gate" -> Gate(inner, token, r)
      [] name = "observatory" -> Observed(inner, r)

\* token is what the gate's read gave.  A crash is answered outside every layer
\* that was added, by the server error handler (external).
HttpAnswer(token, r) ==
    LET seen  == Layer(Added[1], Route(r), token, r)
        inner == Layer(Added[2], seen, token, r)
        out   == Layer(Added[4], Layer(Added[3], inner, token, r), token, r)
    IN  IF r.outcome = "crashes" /\ out.status = 500
        THEN [Bare(500) EXCEPT !.recorded = out.recorded] ELSE out

-----------------------------------------------------------------------------
(* Properties *)

\* A page of an allowed origin can read every answer, also the 401; its
\* preflight needs no token; and every answer to a call has one request-id,
\* also the 401: whatever the gate's read of the token gave.  An answer to a
\* crash has neither.  What the gate turns away is not recorded.
AnswersReadable ==
    hubUp = "up" => \A token \in HubTokens, r \in HttpRequests :
        LET out == HttpAnswer(token, r) IN
        /\ AllowedOrigin(app, r) => out.cors \/ out.status = 500
        /\ AllowedOrigin(app, r) /\ r.preflight => out.status = 200
        /\ ~(r.preflight /\ r.origin # NoOrigin) /\ r.path # "static" => out.ids = 1 \/ out.status = 500
        /\ out.recorded => ApiAdmits(token, r)
        /\ out.envelope => r.path = "messages" /\ out.status = 400

\* While the file stays as the hub found it, the two doors decide alike ("a
\* single auth boundary governs the whole process"), and the token that the
\* login hands out opens both.  A request whose own read of the token fails is
\* the exception, and to one side only: it may turn away a caller with the
\* token, and admits nobody that the admin pages turn away.
OneBoundary ==
    hubUp = "up" /\ same =>
        /\ \A token \in HubTokens, r \in HttpRequests :
              /\ ApiAdmits(token, r) => AdminAdmits(r)
              /\ AdminAdmits(r) => \/ ApiAdmits(token, r)
                                   \/ token # Loaded.token /\ r.token = Loaded.token
        /\ handed # NoToken => Loaded.token = handed

\* What a person configured stays configured: the tray's first start adds a
\* token and changes nothing else, unless it read the file while it was being
\* written, or a person wrote between its read and its save.
SettingsSurvive == file.state = "whole" /\ ~excused => file.origins = chosen
=============================================================================
