--------------------------- MODULE ServiceProofs ----------------------------
(***************************************************************************)
(* Theorems about what the hub's web service keeps and answers: the        *)
(* settings behind its front door, for any tokens and any origins, the     *)
(* usage log, for any cap, any age limit and batches of any size, and the  *)
(* think-tag filter, for any tag, any texts and any way the upstream cuts  *)
(* them.                                                                   *)
(***************************************************************************)
EXTENDS FrontDoor, UsageLog, ThinkStripper, CommonLemmas

-----------------------------------------------------------------------------
(* The settings file and its copies *)

Settings == [token : TokenValues \cup {NoToken}, origins : SUBSET PageOrigins]

DoorTypes ==
    /\ file \in [state : {"absent", "half", "whole"}, token : TokenValues \cup {NoToken},
                 origins : SUBSET PageOrigins]
    /\ loaded \in Settings \cup {Nothing}
    /\ app \in Settings
    /\ admin \in Settings
    /\ hubUp \in {"down", "importing", "up"}
    /\ chosen \in SUBSET PageOrigins
    /\ same \in BOOLEAN
    /\ excused \in BOOLEAN

\* While nothing went between them, what the tray has loaded and what the file
\* says is what the person chose; a tray that holds settings is then not beside
\* a file that is being written.
ChosenInv ==
    ~excused =>
        /\ file.state = "absent" => chosen = {}
        /\ file.state = "whole" => file.origins = chosen
        /\ loaded # Nothing => loaded.origins = chosen /\ file.state # "half"

\* A hub that found the file as it still is has read it twice alike.
CopiesInv ==
    /\ same /\ hubUp \in {"importing", "up"} => app = Loaded
    /\ same /\ hubUp = "up" => admin = Loaded

\* What the login handed out is the token of the sub-app's copy.
HandedInv == handed # NoToken => hubUp = "up" /\ handed = admin.token

DoorInv == DoorTypes /\ ChosenInv /\ CopiesInv /\ HandedInv

LEMMA InitDoor ==
    ASSUME DoorInit
    PROVE  DoorInv
  BY DoorAssumption DEF DoorInit, DoorInv, DoorTypes, ChosenInv, CopiesInv, HandedInv,
                        Settings, NoSettings, Nothing

\* What is loaded is well formed, and never what stands for nothing.
LEMMA LoadedFacts ==
    ASSUME DoorTypes
    PROVE  /\ Loaded \in Settings /\ MayLoad \subseteq Settings
           /\ Nothing \notin Settings
           /\ file.state = "whole" => Loaded.origins = file.origins /\ Loaded.token = file.token
           /\ file.state # "whole" => Loaded.origins = {}
  BY DoorAssumption DEF DoorTypes, Loaded, MayLoad, Settings, NoSettings, Nothing

\* A change of the file, after which the hub's copies count for nothing.
LEMMA FileChanges ==
    ASSUME DoorInv, UNCHANGED <<app, admin, hubUp, handed>>, same' = FALSE
    PROVE  CopiesInv' /\ HandedInv'
  BY DEF DoorInv, CopiesInv, HandedInv

LEMMA PersonSteps ==
    ASSUME DoorInv,
           \/ PersonOpens
           \/ \E token \in TokenValues \cup {NoToken}, origins \in SUBSET PageOrigins :
                  PersonWrites(token, origins)
    PROVE  DoorInv'
  <1>1. CASE PersonOpens
    <2>1. DoorTypes'
      BY <1>1 DEF PersonOpens, DoorInv, DoorTypes
    <2>2. ChosenInv'
      BY <1>1 DEF PersonOpens, DoorInv, DoorTypes, ChosenInv
    <2>3. CopiesInv' /\ HandedInv'
      BY <1>1, FileChanges DEF PersonOpens
    <2> QED BY <2>1, <2>2, <2>3 DEF DoorInv
  <1>2. ASSUME NEW token \in TokenValues \cup {NoToken}, NEW origins \in SUBSET PageOrigins,
               PersonWrites(token, origins)
        PROVE  DoorInv'
    <2>1. DoorTypes'
      BY <1>2 DEF PersonWrites, DoorInv, DoorTypes
    <2>2. ChosenInv'
      BY <1>2 DEF PersonWrites, DoorInv, DoorTypes, ChosenInv
    <2>3. CopiesInv' /\ HandedInv'
      BY <1>2, FileChanges DEF PersonWrites
    <2> QED BY <2>1, <2>2, <2>3 DEF DoorInv
  <1> QED BY <1>1, <1>2

LEMMA TraySteps ==
    ASSUME DoorInv, TrayLoads \/ \E token \in TokenValues : TraySaves(token)
    PROVE  DoorInv'
  <1>1. CASE TrayLoads
    <2>1. /\ loaded = Nothing /\ loaded' \in Settings
          /\ excused' = (excused \/ file.state = "half" \/ loaded' # Loaded)
          /\ UNCHANGED <<file, app, admin, hubUp, handed, same, chosen>>
      BY <1>1, LoadedFacts DEF TrayLoads, DoorInv
    <2>2. DoorTypes'
      BY <2>1 DEF DoorInv, DoorTypes
    <2>3. ChosenInv'
      <3> SUFFICES ASSUME ~excused' PROVE ChosenInv'
        BY DEF ChosenInv
      <3>1. ~excused /\ file.state # "half" /\ loaded' = Loaded
        BY <2>1 DEF DoorInv, DoorTypes
      <3>2. Loaded.origins = chosen
        BY <3>1, LoadedFacts DEF DoorInv, DoorTypes, ChosenInv
      <3> QED BY <2>1, <3>1, <3>2 DEF DoorInv, ChosenInv
    <2>4. CopiesInv' /\ HandedInv'
      BY <2>1 DEF DoorInv, CopiesInv, HandedInv, Loaded
    <2> QED BY <2>2, <2>3, <2>4 DEF DoorInv
  <1>2. ASSUME NEW token \in TokenValues, TraySaves(token)
        PROVE  DoorInv'
    <2>1. loaded \in Settings
      BY <1>2 DEF TraySaves, DoorInv, DoorTypes
    <2>2. DoorTypes'
      BY <1>2, <2>1 DEF TraySaves, DoorInv, DoorTypes, Settings
    <2>3. ChosenInv'
      BY <1>2 DEF TraySaves, DoorInv, ChosenInv
    <2>4. CopiesInv' /\ HandedInv'
      BY <1>2, FileChanges DEF TraySaves
    <2> QED BY <2>2, <2>3, <2>4 DEF DoorInv
  <1> QED BY <1>1, <1>2

LEMMA HubSteps ==
    ASSUME DoorInv, HubLoads \/ AdminLoads \/ DoorHubStops \/ HandsToken
    PROVE  DoorInv'
  <1> USE DEF DoorInv
  <1>1. CASE HubLoads
    <2>1. DoorTypes'
      BY <1>1, LoadedFacts DEF HubLoads, DoorTypes
    <2>2. ChosenInv' /\ CopiesInv' /\ HandedInv'
      BY <1>1 DEF HubLoads, ChosenInv, CopiesInv, HandedInv, Loaded
    <2> QED BY <2>1, <2>2
  <1>2. CASE AdminLoads
    <2>1. DoorTypes'
      BY <1>2, LoadedFacts DEF AdminLoads, DoorTypes
    <2>2. ChosenInv' /\ CopiesInv' /\ HandedInv'
      BY <1>2 DEF AdminLoads, ChosenInv, CopiesInv, HandedInv, Loaded
    <2> QED BY <2>1, <2>2
  <1>3. CASE DoorHubStops
    BY <1>3 DEF DoorHubStops, DoorTypes, ChosenInv, CopiesInv, HandedInv, Loaded
  <1>4. CASE HandsToken
    BY <1>4 DEF HandsToken, DoorTypes, ChosenInv, CopiesInv, HandedInv, Loaded
  <1> QED BY <1>1, <1>2, <1>3, <1>4

\* In every reachable state the invariant holds.
THEOREM DoorInvariant == DoorSpec => []DoorInv
  <1>1. DoorInit => DoorInv
    BY InitDoor
  <1>2. DoorInv /\ [DoorNext]_doorVars => DoorInv'
    <2> SUFFICES ASSUME DoorInv, [DoorNext]_doorVars PROVE DoorInv'
      OBVIOUS
    <2>1. CASE UNCHANGED doorVars
      BY <2>1 DEF doorVars, DoorInv, DoorTypes, ChosenInv, CopiesInv, HandedInv, Loaded
    <2> QED BY <2>1, PersonSteps, TraySteps, HubSteps DEF DoorNext
  <1> QED BY <1>1, <1>2, PTL DEF DoorSpec

\* What a person configured stays configured through the tray's first start.
THEOREM SettingsAlwaysSurvive == DoorSpec => []SettingsSurvive
  <1>1. DoorInv => SettingsSurvive
    BY DEF DoorInv, ChosenInv, SettingsSurvive
  <1> QED BY <1>1, DoorInvariant, PTL

\* The two doors decide alike about every request while the file stays as the
\* hub found it, but for a read that fails, and the token that was handed out
\* opens both.
THEOREM AlwaysOneBoundary == DoorSpec => []OneBoundary
  <1>1. DoorInv => OneBoundary
    <2> SUFFICES ASSUME DoorInv, hubUp = "up", same PROVE OneBoundary
      BY DEF OneBoundary
    <2>1. app = Loaded /\ admin = Loaded
      BY DEF DoorInv, CopiesInv
    <2>2. ASSUME NEW token \in HubTokens, NEW r \in HttpRequests
          PROVE  /\ ApiAdmits(token, r) => AdminAdmits(r)
                 /\ AdminAdmits(r) => \/ ApiAdmits(token, r)
                                      \/ token # Loaded.token /\ r.token = Loaded.token
      <3>1. CASE token = Loaded.token
        BY <2>1, <3>1 DEF ApiAdmits, AdminAdmits
      <3>2. CASE token # Loaded.token
        <4>1. token = NoToken
          BY <3>2 DEF HubTokens, MayLoad, NoSettings
        <4> QED BY <2>1, <3>2, <4>1 DEF ApiAdmits, AdminAdmits, Trusted
      <3> QED BY <3>1, <3>2
    <2>3. handed # NoToken => Loaded.token = handed
      BY <2>1 DEF DoorInv, HandedInv
    <2> QED BY <2>2, <2>3 DEF OneBoundary
  <1> QED BY <1>1, DoorInvariant, PTL

-----------------------------------------------------------------------------
(* Requests *)

\* The shape of a response.
Responses == [status : {200, 400, 401, 500}, cors : BOOLEAN, ids : Nat, version : BOOLEAN,
              envelope : BOOLEAN, recorded : BOOLEAN]

\* Setting one field of a response leaves a response.
LEMMA FieldSet ==
    ASSUME NEW x \in Responses, NEW v \in BOOLEAN
    PROVE  /\ [x EXCEPT !.cors = v] \in Responses
           /\ [x EXCEPT !.version = v] \in Responses
           /\ [x EXCEPT !.envelope = v] \in Responses
           /\ [x EXCEPT !.recorded = v] \in Responses
           /\ [x EXCEPT !.ids = 1] \in Responses
  BY DEF Responses

\* An answer of a status and nothing else.
LEMMA BareResponse ==
    ASSUME NEW status \in {200, 400, 401, 500}
    PROVE  /\ Bare(status) \in Responses /\ Bare(status).status = status
           /\ Bare(status).ids = 0 /\ ~Bare(status).cors
           /\ ~Bare(status).envelope /\ ~Bare(status).recorded
  BY DEF Bare, Responses

\* What comes out of a route, of the observatory, and of the gate around it.
LEMMA InnerLayers ==
    ASSUME NEW token, NEW r \in HttpRequests
    PROVE  LET out == Gate(Observed(Route(r), r), token, r)
           IN  /\ out \in Responses /\ out.ids = 0 /\ ~out.cors
               /\ out.recorded => ApiAdmits(token, r)
               /\ out.envelope => r.path = "messages" /\ out.status = 400
  <1>1. /\ Route(r) \in Responses /\ Route(r).ids = 0 /\ ~Route(r).cors
        /\ Route(r).envelope => r.path = "messages" /\ Route(r).status = 400
    <2>1. CASE r.outcome \in {"crashes", "fine"}
      BY <2>1, BareResponse DEF Route
    <2>2. CASE r.outcome \notin {"crashes", "fine"}
      <3> DEFINE mine == r.path = "messages"
                 bare == Bare(400)
      <3>1. Route(r) = [bare EXCEPT !.envelope = mine] /\ mine \in BOOLEAN
        BY <2>2 DEF Route
      <3>2. bare \in Responses /\ bare.status = 400 /\ bare.ids = 0 /\ ~bare.cors
        BY BareResponse
      <3> HIDE DEF mine, bare
      <3>3. [bare EXCEPT !.envelope = mine] \in Responses
        BY <3>1, <3>2, FieldSet
      <3>4. LET x == [bare EXCEPT !.envelope = mine]
            IN  x.ids = 0 /\ ~x.cors /\ (x.envelope => mine) /\ x.status = 400
        BY <3>2 DEF Responses
      <3> QED BY <3>1, <3>3, <3>4 DEF mine
    <2> QED BY <2>1, <2>2
  <1>2. LET seen == Observed(Route(r), r)
        IN  /\ seen \in Responses /\ seen.ids = 0 /\ ~seen.cors
            /\ seen.envelope => r.path = "messages" /\ seen.status = 400
    <2>1. (r.path \in {"messages", "chat"}) \in BOOLEAN
      OBVIOUS
    <2>2. Observed(Route(r), r) \in Responses
      BY <1>1, <2>1, FieldSet DEF Observed
    <2> QED BY <1>1, <2>2 DEF Observed, Responses
  <1>3. CASE ApiAdmits(token, r)
    BY <1>2, <1>3 DEF Gate
  <1>4. CASE ~ApiAdmits(token, r)
    BY <1>4, BareResponse DEF Gate
  <1> QED BY <1>3, <1>4

\* The tracer gives every response but a static file's one request-id.
LEMMA TracedOnce ==
    ASSUME NEW r \in HttpRequests, NEW inner \in Responses, inner.ids = 0
    PROVE  /\ Trace(inner, r) \in Responses
           /\ r.path # "static" => Trace(inner, r).ids = 1
           /\ Trace(inner, r).recorded = inner.recorded
           /\ Trace(inner, r).envelope = inner.envelope
           /\ Trace(inner, r).status = inner.status
  <1>1. CASE r.path = "static"
    BY <1>1 DEF Trace
  <1>2. CASE r.path # "static"
    <2> DEFINE mine == r.path = "messages"
               once == [inner EXCEPT !.ids = 1]
    <2>1. Trace(inner, r) = [once EXCEPT !.version = mine] /\ mine \in BOOLEAN
      BY <1>2 DEF Trace, Responses
    <2>2. /\ once \in Responses /\ once.ids = 1 /\ once.recorded = inner.recorded
          /\ once.envelope = inner.envelope /\ once.status = inner.status
      BY FieldSet DEF Responses
    <2> HIDE DEF once, mine
    <2>3. [once EXCEPT !.version = mine] \in Responses
      BY <2>1, <2>2, FieldSet
    <2>4. /\ [once EXCEPT !.version = mine].ids = 1
          /\ [once EXCEPT !.version = mine].recorded = once.recorded
          /\ [once EXCEPT !.version = mine].envelope = once.envelope
          /\ [once EXCEPT !.version = mine].status = once.status
      BY <2>2 DEF Responses
    <2> QED BY <2>1, <2>2, <2>3, <2>4
  <1> QED BY <1>1, <1>2

\* What CORS makes of it.
LEMMA CorsOutermost ==
    ASSUME NEW r \in HttpRequests, NEW inner \in Responses
    PROVE  LET out == Cors(inner, r)
           IN  /\ AllowedOrigin(app, r) /\ r.origin # NoOrigin => out.cors
               /\ AllowedOrigin(app, r) /\ r.origin # NoOrigin /\ r.preflight => out.status = 200
               /\ ~(r.preflight /\ r.origin # NoOrigin) =>
                      out.ids = inner.ids /\ out.status = inner.status
               /\ out.recorded => inner.recorded
               /\ out.envelope => inner.envelope /\ out.status = inner.status
  <1>1. CASE r.origin = NoOrigin
    BY <1>1 DEF Cors
  <1>2. CASE r.origin # NoOrigin /\ r.preflight
    BY <1>2 DEF Cors, Bare
  <1>3. CASE r.origin # NoOrigin /\ ~r.preflight
    <2>1. Cors(inner, r) = [inner EXCEPT !.cors = AllowedOrigin(app, r)]
      BY <1>3 DEF Cors
    <2>2. LET x == [inner EXCEPT !.cors = AllowedOrigin(app, r)]
          IN  /\ x.cors = AllowedOrigin(app, r)
              /\ x.ids = inner.ids /\ x.status = inner.status
              /\ x.recorded = inner.recorded /\ x.envelope = inner.envelope
      BY DEF Responses
    <2> QED BY <1>3, <2>1, <2>2
  <1> QED BY <1>1, <1>2, <1>3

\* What every request is answered.
THEOREM AnswersAlwaysReadable == DoorSpec => []AnswersReadable
  <1>1. DoorInv => AnswersReadable
    <2> SUFFICES ASSUME DoorInv, NEW token \in HubTokens, NEW r \in HttpRequests
                 PROVE  LET out == HttpAnswer(token, r) IN
                        /\ AllowedOrigin(app, r) => out.cors \/ out.status = 500
                        /\ AllowedOrigin(app, r) /\ r.preflight => out.status = 200
                        /\ ~(r.preflight /\ r.origin # NoOrigin) /\ r.path # "static" =>
                               out.ids = 1 \/ out.status = 500
                        /\ out.recorded => ApiAdmits(token, r)
                        /\ out.envelope => r.path = "messages" /\ out.status = 400
      BY DEF AnswersReadable
    <2> DEFINE gated  == Gate(Observed(Route(r), r), token, r)
               traced == Trace(gated, r)
               out    == Cors(traced, r)
    <2>1. AllowedOrigin(app, r) => r.origin # NoOrigin
      BY DoorAssumption DEF AllowedOrigin, DoorInv, DoorTypes, Settings
    <2>2. HttpAnswer(token, r) = IF r.outcome = "crashes" /\ out.status = 500
                                 THEN [Bare(500) EXCEPT !.recorded = out.recorded] ELSE out
      BY DEF HttpAnswer, Added, Layer
    <2>3. /\ gated \in Responses /\ gated.ids = 0
          /\ gated.recorded => ApiAdmits(token, r)
          /\ gated.envelope => r.path = "messages" /\ gated.status = 400
      BY InnerLayers
    <2>4. /\ traced \in Responses
          /\ r.path # "static" => traced.ids = 1
          /\ traced.recorded = gated.recorded
          /\ traced.envelope = gated.envelope
          /\ traced.status = gated.status
      <3> HIDE DEF gated
      <3> QED BY <2>3, TracedOnce
    <2>5. /\ AllowedOrigin(app, r) => out.cors
          /\ AllowedOrigin(app, r) /\ r.preflight => out.status = 200
          /\ ~(r.preflight /\ r.origin # NoOrigin) => out.ids = traced.ids
          /\ out.recorded => traced.recorded
          /\ out.envelope => traced.envelope /\ out.status = traced.status
      <3> HIDE DEF traced
      <3> QED BY <2>1, <2>4, CorsOutermost
    <2> HIDE DEF gated, traced, out
    <2>6. CASE r.outcome = "crashes" /\ out.status = 500
      <3>1. /\ HttpAnswer(token, r).status = 500 /\ ~HttpAnswer(token, r).envelope
            /\ HttpAnswer(token, r).recorded = out.recorded
        BY <2>2, <2>6 DEF Bare
      <3> QED BY <2>3, <2>4, <2>5, <2>6, <3>1
    <2>7. CASE ~(r.outcome = "crashes" /\ out.status = 500)
      BY <2>2, <2>3, <2>4, <2>5, <2>7
    <2> QED BY <2>6, <2>7
  <1> QED BY <1>1, DoorInvariant, PTL

-----------------------------------------------------------------------------
(* The retention of the usage log *)

StoredRows == [id : Int, ts : Int, visit : Visits, kind : Kinds, view : Views \cup {NoView}]

\* What the retention property rests on: the ids follow each other up to the
\* last one, and the rows are in the order of their times.
UsageTypes == clock \in Nat /\ events \in Nat /\ table \in Seq(StoredRows)
IdsInv  == \A i \in 1 .. Len(table) : table[i].id = events - Len(table) + i
AgesInv == /\ \A i \in 1 .. Len(table) : table[i].ts <= clock
           /\ \A i, j \in 1 .. Len(table) : i <= j => table[i].ts <= table[j].ts
UsageInv == UsageTypes /\ IdsInv /\ AgesInv /\ Len(table) <= MaxRows

\* A selection takes elements of the sequence at the indices.
LEMMA ChosenType ==
    ASSUME NEW S, NEW s \in Seq(S), NEW I \in SUBSET (1 .. Len(s)), NEW T,
           \A i \in I : s[i] \in T
    PROVE  Chosen(s, I) \in Seq(T) /\ Len(Chosen(s, I)) = Cardinality(I)
<1> DEFINE At(k) == CHOOSE i \in I : Cardinality({j \in I : j <= i}) = k
<1>1. Len(s) \in Nat
  OBVIOUS
<1>2. Cardinality(I) \in Nat
  BY <1>1, FS_Interval, FS_Subset, FS_CardinalityType, 1 \in Int, Len(s) \in Int
<1>3. ASSUME NEW k \in 1 .. Cardinality(I)
      PROVE  s[At(k)] \in T
  <2>1. \E i \in I : Cardinality({j \in I : j <= i}) = k
    BY <1>1, RankReached
  <2>2. At(k) \in I
    BY <2>1
  <2> QED
    BY <2>2
<1>4. Chosen(s, I) = [k \in 1 .. Cardinality(I) |-> s[At(k)]]
  BY DEF Chosen
<1> HIDE DEF At
<1> QED
  BY <1>2, <1>3, <1>4

\* A selection of the last elements is the end of the sequence.
LEMMA ChosenEnd ==
    ASSUME NEW S, NEW s \in Seq(S), NEW m \in 0 .. Len(s)
    PROVE  LET end == Chosen(s, m + 1 .. Len(s))
           IN  Len(end) = Len(s) - m /\ \A k \in 1 .. Len(end) : end[k] = s[m + k]
<1> DEFINE n == Len(s)
           I == m + 1 .. n
           At(k) == CHOOSE i \in I : Cardinality({j \in I : j <= i}) = k
<1>0. n \in Nat /\ m \in Nat /\ m <= n
  OBVIOUS
<1> HIDE DEF n
<1>1. Cardinality(I) = n - m
  <2>1. m + 1 \in Int /\ n \in Int
    BY <1>0
  <2>2. Cardinality(m + 1 .. n) = IF m + 1 > n THEN 0 ELSE n - (m + 1) + 1
    BY <2>1, FS_Interval
  <2> QED
    BY <1>0, <2>2
<1>2. ASSUME NEW i \in I
      PROVE  Cardinality({j \in I : j <= i}) = i - m
  <2>0. i \in Int /\ m + 1 <= i /\ i <= n
    BY <1>0
  <2>1. {j \in I : j <= i} = m + 1 .. i
    BY <1>0, <2>0
  <2>2. m + 1 \in Int /\ i \in Int /\ ~(m + 1 > i)
    BY <1>0, <2>0
  <2>3. Cardinality(m + 1 .. i) = i - (m + 1) + 1
    BY <2>2, FS_Interval
  <2>4. i - (m + 1) + 1 = i - m
    BY <1>0, <2>0
  <2> QED
    BY <2>1, <2>3, <2>4
<1>3. ASSUME NEW k \in 1 .. n - m
      PROVE  At(k) = m + k
  <2>1. m + k \in I /\ m + k - m = k
    BY <1>0
  <2>2. Cardinality({j \in I : j <= m + k}) = k
    BY <1>2, <2>1
  <2>3. At(k) \in I /\ Cardinality({j \in I : j <= At(k)}) = k
    BY <2>1, <2>2
  <2>4. At(k) - m = k
    BY <1>2, <2>3
  <2>5. At(k) \in Int
    BY <1>0, <2>3
  <2> HIDE DEF At
  <2> QED
    BY <1>0, <2>4, <2>5
<1>4. Chosen(s, I) = [k \in 1 .. n - m |-> s[At(k)]]
  BY <1>1 DEF Chosen
<1> HIDE DEF At
<1>5. Len(Chosen(s, I)) = n - m
  BY <1>0, <1>4
<1> QED
  BY <1>3, <1>4, <1>5 DEF n

\* In rows that are in the order of their times the pruning leaves the end.
LEMMA PrunesKeepsEnd ==
    ASSUME NEW rows \in Seq(StoredRows), clock \in Nat,
           \A i, j \in 1 .. Len(rows) : i <= j => rows[i].ts <= rows[j].ts
    PROVE  LET left == Prunes(rows)
           IN  /\ left \in Seq(StoredRows)
               /\ Len(left) <= MaxRows /\ Len(left) <= Len(rows)
               /\ \A k \in 1 .. Len(left) : left[k] = rows[Len(rows) - Len(left) + k]
<1> DEFINE n == Len(rows)
           cutoff == clock - MaxAge
           young == {i \in 1 .. n : rows[i].ts >= cutoff}
           fresh == Chosen(rows, young)
<1>0. n \in Nat /\ MaxRows \in Nat /\ MaxAge \in Nat /\ cutoff \in Int
  BY UsageAssumption
<1>1. \A i \in 1 .. n : rows[i].ts \in Int
  <2>1. \A i \in 1 .. n : rows[i] \in StoredRows
    OBVIOUS
  <2> QED
    BY <2>1 DEF StoredRows
<1>2. \E m \in 0 .. n : young = m + 1 .. n
  <2>1. CASE young = {}
    <3>1. n + 1 .. n = {}
      BY <1>0
    <3> QED
      BY <1>0, <2>1, <3>1
  <2>2. CASE young # {}
    <3>1. young \subseteq Nat
      OBVIOUS
    <3> HIDE DEF young
    <3>2. PICK l \in young : \A i \in young : l <= i
      BY <2>2, <3>1, LeastNumber
    <3> USE DEF young
    <3>3. l \in 1 .. n /\ rows[l].ts >= cutoff
      BY <3>2
    <3>4. \A i \in 1 .. n : i \in young <=> l <= i
      <4>1. SUFFICES ASSUME NEW i \in 1 .. n, l <= i
                     PROVE  rows[i].ts >= cutoff
        BY <3>2
      <4>2. rows[l].ts <= rows[i].ts
        BY <3>3, <4>1
      <4> QED
        BY <1>0, <1>1, <3>3, <4>2
    <3>5. \A i : i \in young <=> i \in (l - 1) + 1 .. n
      BY <1>0, <3>3, <3>4
    <3>6. l - 1 \in 0 .. n
      BY <1>0, <3>3
    <3> QED
      BY <3>5, <3>6
  <2> QED
    BY <2>1, <2>2
<1>3. PICK m \in 0 .. n : young = m + 1 .. n
  BY <1>2
<1>4. fresh \in Seq(StoredRows)
  <2>1. young \in SUBSET (1 .. Len(rows)) /\ \A i \in young : rows[i] \in StoredRows
    OBVIOUS
  <2> HIDE DEF young
  <2> QED
    BY <2>1, ChosenType
<1>5. Len(fresh) = n - m /\ \A k \in 1 .. Len(fresh) : fresh[k] = rows[m + k]
  <2> HIDE DEF young
  <2> QED
    BY <1>3, ChosenEnd
<1> DEFINE from == IF Len(fresh) > MaxRows THEN Len(fresh) - MaxRows + 1 ELSE 1
<1>6. Prunes(rows) = SubSeq(fresh, from, Len(fresh))
  <2>1. DOMAIN rows = 1 .. n
    OBVIOUS
  <2>2. Fresh(rows) = fresh
    BY <2>1 DEF Fresh
  <2> HIDE DEF fresh
  <2> QED
    BY <2>2 DEF Prunes
<1>7. m \in Nat /\ m <= n
  BY <1>0
<1> HIDE DEF n, young, fresh
<1>8. Len(fresh) \in Nat /\ from \in 1 .. Len(fresh) + 1
  BY <1>0, <1>5, <1>7
<1>9. SubSeq(fresh, from, Len(fresh)) \in Seq(StoredRows)
  <2> HIDE DEF from
  <2> QED
    BY <1>4, <1>8
<1>10. Len(SubSeq(fresh, from, Len(fresh))) = Len(fresh) - from + 1
  <2> HIDE DEF from
  <2> QED
    BY <1>4, <1>8
<1>11. ASSUME NEW k \in 1 .. Len(fresh) - from + 1
       PROVE  SubSeq(fresh, from, Len(fresh))[k] = fresh[from + k - 1]
  <2> HIDE DEF from
  <2> QED
    BY <1>4, <1>8
<1>12. ASSUME NEW k \in 1 .. Len(fresh) - from + 1
       PROVE  fresh[from + k - 1] = rows[n - (Len(fresh) - from + 1) + k]
  <2>1. from + k - 1 \in 1 .. Len(fresh)
    BY <1>8
  <2>2. m + (from + k - 1) = n - (Len(fresh) - from + 1) + k
    <3>1. from \in Nat /\ k \in Nat /\ n \in Nat /\ m \in Nat /\ Len(fresh) = n - m
      BY <1>0, <1>5, <1>7, <1>8
    <3> HIDE DEF from
    <3> QED
      BY <3>1
  <2> QED
    BY <1>5, <2>1, <2>2
<1>13. Len(fresh) - from + 1 <= MaxRows /\ Len(fresh) - from + 1 <= n
  BY <1>0, <1>5, <1>7, <1>8
<1> HIDE DEF from
<1> QED
  BY <1>6, <1>9, <1>10, <1>11, <1>12, <1>13 DEF n

\* A row that is stored is a row of the table, with the time and id of its turn.
LEMMA PostsKeeps ==
    ASSUME UsageInv, NEW visit \in Visits, NEW n \in Nat, NEW batch \in [1 .. n -> Sent],
           Posts(visit, batch)
    PROVE  UsageInv'
<1> DEFINE good == Chosen(batch, {i \in DOMAIN batch : Valid(batch[i])})
           new  == [i \in 1 .. Len(good) |-> Row(good[i], visit, events + i)]
           rows == table \o new
<1>0. clock \in Nat /\ events \in Nat /\ table \in Seq(StoredRows) /\ Len(table) \in Nat
  BY DEF UsageInv, UsageTypes
<1>1. batch \in Seq(Sent) /\ DOMAIN batch = 1 .. n /\ Len(batch) = n
  OBVIOUS
<1>2. good \in Seq({e \in Sent : Valid(e)}) /\ Len(good) \in Nat
  <2> DEFINE I == {i \in DOMAIN batch : Valid(batch[i])}
  <2>1. I \in SUBSET (1 .. Len(batch)) /\ \A i \in I : batch[i] \in {e \in Sent : Valid(e)}
    BY <1>1
  <2> HIDE DEF I
  <2>2. Chosen(batch, I) \in Seq({e \in Sent : Valid(e)})
    BY <1>1, <2>1, ChosenType
  <2> QED
    BY <2>2 DEF I
<1> HIDE DEF good
<1>3. ASSUME NEW i \in 1 .. Len(good)
      PROVE  /\ Row(good[i], visit, events + i) \in StoredRows
             /\ Row(good[i], visit, events + i).id = events + i
             /\ Row(good[i], visit, events + i).ts = clock
  <2>1. good[i] \in Sent /\ good[i].kind \in Kinds
    BY <1>2 DEF Valid
  <2>2. good[i].kind = "view" => good[i].view \in Views \cup {NoView}
    BY <2>1 DEF Sent
  <2>3. events + i \in Int /\ clock \in Int
    BY <1>0, <1>2
  <2> QED
    BY <2>1, <2>2, <2>3 DEF Row, StoredRows
<1>4. /\ new \in Seq(StoredRows) /\ Len(new) = Len(good)
      /\ \A i \in 1 .. Len(good) : new[i].id = events + i /\ new[i].ts = clock
  <2>1. \A i \in 1 .. Len(good) : Row(good[i], visit, events + i) \in StoredRows
    BY <1>3
  <2>2. \A i \in 1 .. Len(good) : new[i] = Row(good[i], visit, events + i)
    OBVIOUS
  <2>3. new \in Seq(StoredRows) /\ Len(new) = Len(good)
    BY <1>2, <2>1
  <2> QED
    BY <1>3, <2>2, <2>3
<1> HIDE DEF new
<1>5. /\ rows \in Seq(StoredRows) /\ Len(rows) = Len(table) + Len(good)
      /\ \A i \in 1 .. Len(table) : rows[i] = table[i]
      /\ \A i \in 1 .. Len(good) : rows[Len(table) + i] = new[i]
  <2>1. new \in Seq(StoredRows) /\ Len(new) = Len(good)
    BY <1>4
  <2>2. /\ rows \in Seq(StoredRows) /\ Len(rows) = Len(table) + Len(new)
        /\ \A i \in 1 .. Len(table) : rows[i] = table[i]
        /\ \A i \in 1 .. Len(new) : rows[Len(table) + i] = new[i]
    <3>1. table \in Seq(StoredRows)
      BY <1>0
    <3>2. new \in Seq(StoredRows)
      BY <2>1
    <3> QED
      BY <3>1, <3>2, Appended
  <2> QED
    BY <2>1, <2>2
<1> HIDE DEF rows
<1>6. \A i \in 1 .. Len(rows) : i \notin 1 .. Len(table) =>
          i - Len(table) \in 1 .. Len(good) /\ Len(table) + (i - Len(table)) = i
  BY <1>0, <1>2, <1>5
<1>7. ASSUME NEW i \in 1 .. Len(rows)
      PROVE  rows[i].id = events + Len(good) - Len(rows) + i /\ rows[i].ts \in Int /\ rows[i].ts <= clock
  <2>0. rows[i] \in StoredRows
    BY <1>5
  <2>1. rows[i].ts \in Int
    BY <2>0 DEF StoredRows
  <2>2. CASE i \in 1 .. Len(table)
    <3>1. rows[i].id = events - Len(table) + i /\ rows[i].ts <= clock
      BY <1>5, <2>2 DEF UsageInv, IdsInv, AgesInv
    <3>2. events - Len(table) = events + Len(good) - Len(rows)
      BY <1>0, <1>2, <1>5
    <3> QED
      BY <2>1, <3>1, <3>2
  <2>3. CASE i \notin 1 .. Len(table)
    <3>1. rows[i] = new[i - Len(table)] /\ i - Len(table) \in 1 .. Len(good)
      BY <1>5, <1>6, <2>3
    <3>2. rows[i].id = events + (i - Len(table)) /\ rows[i].ts = clock
      BY <1>4, <3>1
    <3> QED
      BY <1>0, <1>2, <1>5, <3>2
  <2> QED
    BY <2>2, <2>3
<1>8. ASSUME NEW i \in 1 .. Len(rows), NEW j \in 1 .. Len(rows), i <= j
      PROVE  rows[i].ts <= rows[j].ts
  <2>1. CASE j \in 1 .. Len(table)
    <3>1. i \in 1 .. Len(table)
      BY <1>0, <1>8, <2>1
    <3> QED
      BY <1>5, <1>8, <2>1, <3>1 DEF UsageInv, AgesInv
  <2>2. CASE j \notin 1 .. Len(table)
    <3>1. rows[j].ts = clock
      <4>1. j - Len(table) \in 1 .. Len(good) /\ Len(table) + (j - Len(table)) = j
        BY <1>6, <2>2
      <4>2. rows[Len(table) + (j - Len(table))] = new[j - Len(table)]
        BY <1>5, <4>1
      <4> QED
        BY <1>4, <4>1, <4>2
    <3> QED
      BY <1>7, <3>1
  <2> QED
    BY <2>1, <2>2
<1>9. /\ table' \in Seq(StoredRows) /\ Len(table') <= MaxRows /\ Len(table') <= Len(rows)
      /\ \A k \in 1 .. Len(table') : table'[k] = rows[Len(rows) - Len(table') + k]
  <2>1. table' = Prunes(rows)
    BY DEF Posts, rows, new, good
  <2>2. \A i, j \in 1 .. Len(rows) : i <= j => rows[i].ts <= rows[j].ts
    BY <1>8
  <2> QED
    BY <1>0, <1>5, <2>1, <2>2, PrunesKeepsEnd
<1>10. clock' = clock /\ events' = events + Len(good)
  BY DEF Posts, good
<1>11. ASSUME NEW k \in 1 .. Len(table')
       PROVE  Len(rows) - Len(table') + k \in 1 .. Len(rows)
  BY <1>0, <1>2, <1>5, <1>9
<1>12. ASSUME NEW k \in 1 .. Len(table')
       PROVE  table'[k].id = events' - Len(table') + k
  <2>1. table'[k].id = events + Len(good) - Len(rows) + (Len(rows) - Len(table') + k)
    BY <1>7, <1>9, <1>11
  <2>2. Len(rows) \in Int /\ Len(table') \in Int /\ events \in Int /\ Len(good) \in Int
    BY <1>0, <1>2, <1>5, <1>9
  <2> QED
    BY <1>10, <2>1, <2>2
<1>13. ASSUME NEW k \in 1 .. Len(table')
       PROVE  table'[k].ts <= clock'
  BY <1>7, <1>9, <1>10, <1>11
<1>14. ASSUME NEW k \in 1 .. Len(table'), NEW l \in 1 .. Len(table'), k <= l
       PROVE  table'[k].ts <= table'[l].ts
  <2>1. Len(rows) - Len(table') + k <= Len(rows) - Len(table') + l
    BY <1>5, <1>9, <1>14
  <2> QED
    BY <1>8, <1>9, <1>11, <2>1
<1>15. UsageTypes'
  BY <1>0, <1>2, <1>9, <1>10 DEF UsageTypes
<1> QED
  BY <1>9, <1>12, <1>13, <1>14, <1>15 DEF UsageInv, IdsInv, AgesInv

\* The table is what its rules say in every reachable state.
THEOREM UsageInvariant == UsageSpec => []UsageInv
<1>1. UsageInit => UsageInv
  <2> SUFFICES ASSUME UsageInit
               PROVE  UsageInv
    OBVIOUS
  <2>1. table \in Seq(StoredRows) /\ Len(table) = 0 /\ 1 .. Len(table) = {}
    BY DEF UsageInit
  <2> QED
    BY <2>1, UsageAssumption DEF UsageInit, UsageInv, UsageTypes, IdsInv, AgesInv
<1>2. UsageInv /\ [UsageNext]_usageVars => UsageInv'
  <2> SUFFICES ASSUME UsageInv, [UsageNext]_usageVars
               PROVE  UsageInv'
    OBVIOUS
  <2>1. ASSUME NEW visit \in Visits, NEW n \in 1 .. MaxBatch, NEW batch \in [1 .. n -> Sent],
               Posts(visit, batch)
        PROVE  UsageInv'
    BY <2>1, PostsKeeps
  <2>2. CASE ClockTicks
    <3>1. \A i \in 1 .. Len(table) : table[i].ts \in Int
      <4>1. \A i \in 1 .. Len(table) : table[i] \in StoredRows
        BY DEF UsageInv, UsageTypes
      <4> QED
        BY <4>1 DEF StoredRows
    <3>2. clock \in Nat /\ clock' = clock + 1 /\ table' = table /\ events' = events
      BY <2>2 DEF ClockTicks, UsageInv, UsageTypes
    <3> QED
      BY <3>1, <3>2 DEF UsageInv, UsageTypes, IdsInv, AgesInv
  <2>3. CASE UNCHANGED usageVars
    BY <2>3 DEF usageVars, UsageInv, UsageTypes, IdsInv, AgesInv
  <2> QED
    BY <2>1, <2>2, <2>3 DEF UsageNext
<1> QED
  BY <1>1, <1>2, PTL DEF UsageSpec

\* Retention takes the oldest rows only and leaves no more than max_rows, for
\* every cap, every age limit and batches of every size.
THEOREM RetentionAlwaysTakesOldest == UsageSpec => []RetentionTakesOldest
<1>1. UsageInv => RetentionTakesOldest
  BY DEF UsageInv, IdsInv, RetentionTakesOldest
<1> QED
  BY <1>1, UsageInvariant, PTL

-----------------------------------------------------------------------------
(* The report of the usage log: the time of pieces is the number of ticks *)

\* A set of numbers that is bounded has its greatest, its least one.
LEMMA MaxIs ==
    ASSUME NEW T, T \subseteq Int, T # {}, NEW m \in Int, \A x \in T : x <= m
    PROVE  Max(T) \in T /\ \A y \in T : y <= Max(T)
<1> DEFINE Gaps == {m - x : x \in T}
<1>1. PICK g \in Gaps : \A y \in Gaps : g <= y
  <2>1. Gaps \subseteq Nat /\ Gaps # {}
    <3>1. \A x \in T : m - x \in Nat
      OBVIOUS
    <3> QED
      BY <3>1
  <2> HIDE DEF Gaps
  <2> QED
    BY <2>1, LeastNumber
<1>2. PICK x \in T : g = m - x
  BY <1>1
<1>3. \A y \in T : x >= y
  <2> SUFFICES ASSUME NEW y \in T
               PROVE  x >= y
    OBVIOUS
  <2>1. m - x <= m - y
    BY <1>1, <1>2
  <2> QED
    BY <2>1
<1>4. Max(T) \in T /\ \A y \in T : Max(T) >= y
  BY <1>3 DEF Max
<1> HIDE DEF Gaps
<1> QED
  BY <1>4

LEMMA MinIs ==
    ASSUME NEW T, T \subseteq Int, T # {}, NEW m \in Int, \A x \in T : m <= x
    PROVE  Min(T) \in T /\ \A y \in T : Min(T) <= y
<1> DEFINE Gaps == {x - m : x \in T}
<1>1. PICK g \in Gaps : \A y \in Gaps : g <= y
  <2>1. Gaps \subseteq Nat /\ Gaps # {}
    <3>1. \A x \in T : x - m \in Nat
      OBVIOUS
    <3> QED
      BY <3>1
  <2> HIDE DEF Gaps
  <2> QED
    BY <2>1, LeastNumber
<1>2. PICK x \in T : g = x - m
  BY <1>1
<1>3. \A y \in T : x =< y
  <2> SUFFICES ASSUME NEW y \in T
               PROVE  x =< y
    OBVIOUS
  <2>1. x - m <= y - m
    BY <1>1, <1>2
  <2> QED
    BY <2>1
<1> QED
  BY <1>3 DEF Min

Covers(p, u)  == p.lo <= u /\ u < p.hi
TicksOf(P, W) == {u \in W : \E p \in P : Covers(p, u)}

\* Pieces inside the window a .. b - 1, no two of which overlap.
Apart(P, a, b) ==
    /\ \A p \in P : p.lo \in Int /\ p.hi \in Int /\ a <= p.lo /\ p.lo <= p.hi /\ p.hi <= b
    /\ \A p, q \in P : p # q => p.hi <= q.lo \/ q.hi <= p.lo

\* One more piece has its own ticks.
LEMMA OnePieceMore ==
    ASSUME NEW a \in Int, NEW b \in Int, NEW P, Apart(P, a, b), NEW p \in P
    PROVE  Cardinality(TicksOf(P, a .. b)) = Cardinality(TicksOf(P \ {p}, a .. b)) + p.hi - p.lo
<1> DEFINE Rest == TicksOf(P \ {p}, a .. b)
           Mine == p.lo .. p.hi - 1
<1>0. p.lo \in Int /\ p.hi \in Int /\ a <= p.lo /\ p.lo <= p.hi /\ p.hi <= b
  BY DEF Apart
<1>1. TicksOf(P, a .. b) = Rest \cup Mine
  <2>1. \A u \in a .. b : Covers(p, u) <=> u \in Mine
    BY <1>0 DEF Covers
  <2>2. Mine \subseteq a .. b
    BY <1>0
  <2> HIDE DEF Mine
  <2> QED
    BY <2>1, <2>2 DEF TicksOf
<1>2. Rest \cap Mine = {}
  <2> SUFFICES ASSUME NEW u \in Rest, u \in Mine
               PROVE  FALSE
    OBVIOUS
  <2>1. PICK q \in P \ {p} : Covers(q, u)
    BY DEF TicksOf
  <2>2. p.hi <= q.lo \/ q.hi <= p.lo
    BY <2>1 DEF Apart
  <2>3. q.lo \in Int /\ q.hi \in Int /\ u \in Int
    BY <1>0, <2>1 DEF Apart
  <2> DEFINE pl == p.lo
             ph == p.hi
             ql == q.lo
             qh == q.hi
  <2>4. pl <= u /\ u < ph /\ ql <= u /\ u < qh /\ (ph <= ql \/ qh <= pl)
    BY <1>0, <2>1, <2>2, <2>3 DEF Covers
  <2>5. pl \in Int /\ ph \in Int /\ ql \in Int /\ qh \in Int
    BY <1>0, <2>3
  <2> HIDE DEF pl, ph, ql, qh
  <2> QED
    BY <2>3, <2>4, <2>5
<1>3. IsFiniteSet(Rest) /\ Cardinality(Rest) \in Nat
  <2>1. Rest \in SUBSET (a .. b)
    BY DEF TicksOf
  <2> HIDE DEF Rest
  <2> QED
    BY <2>1, FS_Interval, FS_Subset, FS_CardinalityType
<1>4. IsFiniteSet(Mine) /\ Cardinality(Mine) = p.hi - p.lo
  <2>1. p.hi - 1 \in Int
    BY <1>0
  <2>2. IsFiniteSet(Mine) /\ Cardinality(Mine) = IF p.lo > p.hi - 1 THEN 0 ELSE p.hi - 1 - p.lo + 1
    BY <1>0, <2>1, FS_Interval
  <2> QED
    BY <1>0, <2>2
<1> HIDE DEF Rest, Mine
<1>5. Cardinality(Rest \cup Mine) = Cardinality(Rest) + Cardinality(Mine) - Cardinality(Rest \cap Mine)
  BY <1>3, <1>4, FS_Union
<1>6. Cardinality(Rest \cap Mine) = 0
  BY <1>2, FS_EmptySet
<1>7. Cardinality(Rest \cup Mine) = Cardinality(Rest) + p.hi - p.lo
  BY <1>0, <1>3, <1>4, <1>5, <1>6
<1> QED
  BY <1>1, <1>7 DEF Rest

\* The time of pieces that do not overlap is the number of ticks in them.
LEMMA TimeIsTicks ==
    ASSUME NEW a \in Int, NEW b \in Int, NEW P, IsFiniteSet(P), Apart(P, a, b)
    PROVE  TimeOf(P) = Cardinality(TicksOf(P, a .. b))
<1> DEFINE Pick(s) == CHOOSE x \in s : TRUE
           Sums(g) == g = [s \in SUBSET P |->
                              IF s = {} THEN 0 ELSE g[s \ {Pick(s)}] + Pick(s).hi - Pick(s).lo]
           Count(s) == Cardinality(TicksOf(s, a .. b))
<1>1. TimeOf(P) = (CHOOSE g : Sums(g))[P]
  BY DEF TimeOf, FoldSet, MapThenFoldSet
<1>2. \A s \in SUBSET P : Apart(s, a, b) /\ IsFiniteSet(s)
  BY FS_Subset DEF Apart
<1>3. ASSUME NEW s \in SUBSET P, s # {}
      PROVE  /\ Pick(s) \in s /\ s \ {Pick(s)} \in SUBSET P
             /\ Count(s) = Count(s \ {Pick(s)}) + Pick(s).hi - Pick(s).lo
  <2>1. Pick(s) \in s
    BY <1>3
  <2> HIDE DEF Pick
  <2> QED
    BY <1>2, <2>1, OnePieceMore
<1>4. Count({}) = 0
  <2>1. TicksOf({}, a .. b) = {}
    BY DEF TicksOf
  <2> QED
    BY <2>1, FS_EmptySet
<1>5. Sums([s \in SUBSET P |-> Count(s)])
  <2> DEFINE g == [s \in SUBSET P |-> Count(s)]
  <2>1. \A s \in SUBSET P :
            Count(s) = IF s = {} THEN 0 ELSE g[s \ {Pick(s)}] + Pick(s).hi - Pick(s).lo
    <3> HIDE DEF Pick, Count
    <3> QED
      BY <1>3, <1>4
  <2> HIDE DEF Pick, Count
  <2> QED
    BY <2>1
<1>6. ASSUME NEW g, Sums(g)
      PROVE  g[P] = Count(P)
  <2> DEFINE Wrong == {s \in SUBSET P : g[s] # Count(s)}
             Sizes == {Cardinality(s) : s \in Wrong}
  <2>1. SUFFICES ASSUME P \in Wrong
                 PROVE  FALSE
    OBVIOUS
  <2>2. PICK k \in Sizes : \A l \in Sizes : k <= l
    <3>1. \A s \in SUBSET P : Cardinality(s) \in Nat
      BY <1>2, FS_CardinalityType
    <3>2. Sizes \subseteq Nat /\ Sizes # {}
      BY <2>1, <3>1
    <3> HIDE DEF Sizes
    <3> QED
      BY <3>2, LeastNumber
  <2>3. PICK s \in Wrong : Cardinality(s) = k
    BY <2>2
  <2>4. s # {}
    BY <1>4, <1>6, <2>3
  <2>5. s \in SUBSET P /\ Pick(s) \in s /\ s \ {Pick(s)} \in SUBSET P
    BY <1>3, <2>3, <2>4
  <2>6. g[s] = g[s \ {Pick(s)}] + Pick(s).hi - Pick(s).lo
    BY <1>6, <2>4, <2>5
  <2>7. g[s \ {Pick(s)}] # Count(s \ {Pick(s)})
    BY <1>3, <2>3, <2>4, <2>5, <2>6
  <2>8. Cardinality(s \ {Pick(s)}) \in Sizes
    BY <2>5, <2>7
  <2>9. IsFiniteSet(s) /\ Cardinality(s) \in Nat
    BY <1>2, <2>5, FS_CardinalityType
  <2>10. Cardinality(s \ {Pick(s)}) = Cardinality(s) - 1
    <3> HIDE DEF Pick
    <3> QED
      BY <2>5, <2>9, FS_RemoveElement
  <2> HIDE DEF Sizes, Pick
  <2> QED
    BY <2>2, <2>3, <2>8, <2>9, <2>10
<1>7. Sums(CHOOSE g : Sums(g))
  <2> HIDE DEF Sums
  <2> QED
    BY <1>5
<1> QED
  <2> HIDE DEF Sums, Count
  <2>1. (CHOOSE g : Sums(g))[P] = Count(P)
    BY <1>6, <1>7
  <2> QED
    BY <1>1, <2>1 DEF Count

-----------------------------------------------------------------------------
(* The report of the usage log: the intervals of a visit *)

Intvls == [start : Int, order : Int, device : {"phone", "tablet", "desktop"},
           points : Seq(Int), views : Seq(Int \X (Views \cup {NoView}))]
Accs   == {acc \in [intervals : Seq(Intvls), open : BOOLEAN, view : Views \cup {NoView}] :
              acc.open => acc.intervals # <<>>}
NoAcc  == [intervals |-> <<>>, open |-> FALSE, view |-> NoView]

\* Whether a stretch is open after a row, and in which view the visit is.
LEMMA FollowFields ==
    ASSUME NEW acc, NEW r
    PROVE  /\ Follow(acc, r).open = (r.kind # "session_end")
           /\ Follow(acc, r).view = IF r.kind = "view" THEN r.view ELSE acc.view
<1> DEFINE view  == IF r.kind = "view" THEN r.view ELSE acc.view
           opens == r.kind = "session_start" \/ ~acc.open
           n     == Len(acc.intervals)
           last  == acc.intervals[n]
           fresh == [start |-> r.ts, order |-> r.id, device |-> DeviceOf[r.visit],
                     points |-> <<r.ts>>, views |-> <<<<r.ts, view>>>>]
           longer == [start |-> last.start, order |-> last.order, device |-> last.device,
                      points |-> Append(last.points, r.ts),
                      views |-> IF r.kind = "view" THEN Append(last.views, <<r.ts, view>>)
                                                   ELSE last.views]
           ivs == IF opens THEN Append(acc.intervals, fresh)
                  ELSE [acc.intervals EXCEPT ![n] = longer]
           o   == r.kind # "session_end"
<1>1. Follow(acc, r) = [intervals |-> ivs, open |-> o, view |-> view]
  BY DEF Follow
<1> HIDE DEF ivs, o, view
<1>2. Follow(acc, r).open = o /\ Follow(acc, r).view = view
  BY <1>1
<1> QED
  BY <1>2 DEF o, view

\* One more row keeps the accumulator's type; a stretch that is open has an
\* interval.
LEMMA FollowTyped ==
    ASSUME NEW acc \in Accs, NEW r \in StoredRows
    PROVE  Follow(acc, r) \in Accs
<1> DEFINE view    == IF r.kind = "view" THEN r.view ELSE acc.view
           opens   == r.kind = "session_start" \/ ~acc.open
           n       == Len(acc.intervals)
           current == acc.intervals[n]
           fresh   == [start |-> r.ts, order |-> r.id, device |-> DeviceOf[r.visit],
                       points |-> <<r.ts>>, views |-> <<<<r.ts, view>>>>]
           longer  == [start |-> current.start, order |-> current.order,
                       device |-> current.device, points |-> Append(current.points, r.ts),
                       views |-> IF r.kind = "view" THEN Append(current.views, <<r.ts, view>>)
                                                    ELSE current.views]
<1>1. /\ r.id \in Int /\ r.ts \in Int /\ r.visit \in Visits /\ r.view \in Views \cup {NoView}
      /\ acc.intervals \in Seq(Intvls) /\ acc.open \in BOOLEAN
      /\ acc.view \in Views \cup {NoView} /\ (acc.open => acc.intervals # <<>>)
  BY DEF StoredRows, Accs
<1>2. view \in Views \cup {NoView} /\ DeviceOf[r.visit] \in {"phone", "tablet", "desktop"}
  BY <1>1, UsageAssumption
<1>3. Follow(acc, r) = [intervals |-> IF opens THEN Append(acc.intervals, fresh)
                                      ELSE [acc.intervals EXCEPT ![n] = longer],
                        open |-> r.kind # "session_end", view |-> view]
  BY DEF Follow
<1>4. CASE opens
  <2>1. fresh \in Intvls
    <3>1. <<r.ts>> \in Seq(Int)
      BY <1>1
    <3>2. <<r.ts, view>> \in Int \X (Views \cup {NoView})
      BY <1>1, <1>2
    <3>3. <<<<r.ts, view>>>> \in Seq(Int \X (Views \cup {NoView}))
      <4> DEFINE e == <<r.ts, view>>
      <4> HIDE DEF e
      <4>1. e \in Int \X (Views \cup {NoView})
        BY <3>2 DEF e
      <4>2. <<e>> \in Seq(Int \X (Views \cup {NoView}))
        BY <4>1
      <4> QED
        BY <4>2 DEF e
    <3> QED
      BY <1>1, <1>2, <3>1, <3>3 DEF Intvls
  <2> HIDE DEF fresh
  <2>2. Append(acc.intervals, fresh) \in Seq(Intvls) /\ Append(acc.intervals, fresh) # <<>>
    <3> DEFINE ivs == acc.intervals
    <3>1. ivs \in Seq(Intvls)
      BY <1>1
    <3> HIDE DEF ivs
    <3>2. Append(ivs, fresh) \in Seq(Intvls) /\ Len(Append(ivs, fresh)) = Len(ivs) + 1
      BY <2>1, <3>1
    <3>3. Len(ivs) + 1 # 0 /\ Len(<<>>) = 0
      BY <3>1
    <3> QED
      BY <3>2, <3>3 DEF ivs
  <2> QED
    BY <1>2, <1>3, <1>4, <2>2 DEF Accs
<1>5. CASE ~opens
  <2>1. n \in 1 .. Len(acc.intervals) /\ current \in Intvls
    BY <1>1, <1>5
  <2>2. longer \in Intvls
    <3>1. /\ current.start \in Int /\ current.order \in Int
          /\ current.device \in {"phone", "tablet", "desktop"}
          /\ current.points \in Seq(Int) /\ current.views \in Seq(Int \X (Views \cup {NoView}))
      BY <2>1 DEF Intvls
    <3> HIDE DEF current
    <3>2. Append(current.points, r.ts) \in Seq(Int)
      BY <1>1, <3>1
    <3>3. <<r.ts, view>> \in Int \X (Views \cup {NoView})
      BY <1>1, <1>2
    <3>4. Append(current.views, <<r.ts, view>>) \in Seq(Int \X (Views \cup {NoView}))
      <4> DEFINE e == <<r.ts, view>>
                 vs == current.views
                 S == Int \X (Views \cup {NoView})
      <4>1. e \in S /\ vs \in Seq(S)
        BY <3>1, <3>3
      <4> HIDE DEF e, vs, S
      <4>2. Append(vs, e) \in Seq(S)
        BY <4>1
      <4> QED
        BY <4>2 DEF e, vs, S
    <3> QED
      BY <3>1, <3>2, <3>4 DEF Intvls
  <2> HIDE DEF longer, current
  <2>3. /\ [acc.intervals EXCEPT ![n] = longer] \in Seq(Intvls)
        /\ [acc.intervals EXCEPT ![n] = longer] # <<>>
    BY <1>1, <2>1, <2>2
  <2> QED
    BY <1>2, <1>3, <1>5, <2>3 DEF Accs
<1> QED
  BY <1>4, <1>5

\* The intervals come from the rows one by one: steps[k] is what the first k
\* rows make.
Steps(rows, steps) ==
    /\ steps \in [0 .. Len(rows) -> Accs]
    /\ steps[0] = NoAcc
    /\ \A k \in 1 .. Len(rows) : steps[k] = Follow(steps[k - 1], rows[k])

LEMMA IntervalsByStep ==
    ASSUME NEW rows \in Seq(StoredRows)
    PROVE  \E steps : Steps(rows, steps) /\ Intervals(rows) = steps[Len(rows)].intervals
<1> DEFINE n    == Len(rows)
           X    == SUBSET (1 .. n)
           Iter(g) == g = [s \in SUBSET DOMAIN rows |->
                              IF s = {} THEN NoAcc ELSE Follow(g[s \ {Max(s)}], rows[Max(s)])]
<1>0. n \in Nat /\ DOMAIN rows = 1 .. n /\ \A i \in 1 .. n : rows[i] \in StoredRows
  OBVIOUS
<1>1. Intervals(rows) = (CHOOSE g : Iter(g))[DOMAIN rows].intervals
  BY DEF Intervals, FoldLeft, MapThenFoldSet, NoAcc
<1>2. ASSUME NEW s \in X, s # {}
      PROVE  Max(s) \in s /\ Max(s) \in 1 .. n /\ s \ {Max(s)} \in X
  <2>1. s \subseteq Int /\ n \in Int /\ \A i \in s : i <= n
    BY <1>0
  <2>2. Max(s) \in s
    BY <1>2, <2>1, MaxIs
  <2> QED
    BY <2>2
<1>3. \E g : Iter(g)
  <2> DEFINE size == [s \in X |-> Cardinality(s)]
             last == [s \in X |-> NoAcc]
             ends == {{}}
             down == [s \in X |-> IF s = {} THEN {} ELSE s \ {Max(s)}]
             row  == [s \in X |-> IF s = {} THEN CHOOSE r \in StoredRows : TRUE ELSE rows[Max(s)]]
             join == [p \in X \X Accs |-> IF p[1] = {} THEN p[2] ELSE Follow(p[2], rows[Max(p[1])])]
  <2>1. \A s \in X : IsFiniteSet(s) /\ Cardinality(s) \in Nat
    <3>1. IsFiniteSet(1 .. n)
      BY <1>0, FS_Interval, 1 \in Int, n \in Int
    <3> QED
      BY <3>1, FS_Subset, FS_CardinalityType
  <2>2. size \in [X -> Nat] /\ ends \in SUBSET X
    BY <2>1
  <2>3. NoAcc \in Accs
    BY DEF Accs, NoAcc
  <2>4. last \in [X -> Accs]
    BY <2>3
  <2>5. down \in [X -> X]
    <3>1. \A s \in X : (IF s = {} THEN {} ELSE s \ {Max(s)}) \in X
      OBVIOUS
    <3> QED
      BY <3>1
  <2>6. join \in [X \X Accs -> Accs]
    <3>1. ASSUME NEW p \in X \X Accs
          PROVE  (IF p[1] = {} THEN p[2] ELSE Follow(p[2], rows[Max(p[1])])) \in Accs
      <4>1. p[1] \in X /\ p[2] \in Accs
        BY <3>1
      <4>2. p[1] # {} => rows[Max(p[1])] \in StoredRows
        BY <1>0, <1>2, <4>1
      <4> QED
        BY <4>1, <4>2, FollowTyped
    <3> HIDE DEF X
    <3> QED
      BY <3>1
  <2>7. \A s \in X \ ends : size[down[s]] < size[s]
    <3> SUFFICES ASSUME NEW s \in X, s # {}
                 PROVE  Cardinality(s \ {Max(s)}) < Cardinality(s)
      BY <1>2
    <3>1. Max(s) \in s /\ IsFiniteSet(s) /\ Cardinality(s) \in Nat
      BY <1>2, <2>1
    <3>2. Cardinality(s \ {Max(s)}) = Cardinality(s) - 1
      BY <3>1, FS_RemoveElement
    <3> QED
      BY <3>1, <3>2
  <2>8. Solvable(X, Accs, ends, last, down, join)
    <3> HIDE DEF X, size, ends, last, down, join
    <3> QED
      BY <2>2, <2>4, <2>5, <2>6, <2>7, Recursion
  <2>9. PICK g \in [X -> Accs] :
            \A s \in X : g[s] = IF s \in ends THEN last[s] ELSE join[<<s, g[down[s]]>>]
    BY <2>8 DEF Solvable, Solution
  <2>10. ASSUME NEW s \in X
         PROVE  g[s] = IF s = {} THEN NoAcc ELSE Follow(g[s \ {Max(s)}], rows[Max(s)])
    <3>1. CASE s = {}
      BY <2>9, <3>1
    <3>2. CASE s # {}
      <4>1. down[s] = s \ {Max(s)} /\ s \ {Max(s)} \in X
        BY <1>2, <3>2
      <4>2. <<s, g[down[s]]>> \in X \X Accs
        BY <2>9, <4>1
      <4>3. join[<<s, g[down[s]]>>] = Follow(g[down[s]], rows[Max(s)])
        BY <3>2, <4>2
      <4>4. g[s] = join[<<s, g[down[s]]>>]
        BY <2>9, <3>2
      <4> QED
        BY <3>2, <4>1, <4>3, <4>4
    <3> QED
      BY <3>1, <3>2
  <2>11. Iter(g)
    BY <1>0, <2>9, <2>10
  <2> QED
    BY <2>11
<1> DEFINE g == CHOOSE g : Iter(g)
<1>4. Iter(g)
  <2> HIDE DEF Iter
  <2> QED
    BY <1>3
<1> HIDE DEF g
<1>5. \A s \in X : g[s] = IF s = {} THEN NoAcc ELSE Follow(g[s \ {Max(s)}], rows[Max(s)])
  BY <1>0, <1>4
<1> DEFINE steps == [k \in 0 .. n |-> g[1 .. k]]
<1>6. steps[0] = NoAcc
  <2>1. 1 .. 0 = {} /\ 1 .. 0 \in X
    OBVIOUS
  <2>2. 0 \in 0 .. n
    BY <1>0
  <2>3. g[1 .. 0] = NoAcc
    BY <1>5, <2>1
  <2> QED
    BY <2>2, <2>3
<1>7. ASSUME NEW k \in 1 .. n
      PROVE  steps[k] = Follow(steps[k - 1], rows[k])
  <2>1. 1 .. k \in X /\ 1 .. k # {} /\ (1 .. k) \ {k} = 1 .. k - 1
    <3>1. k \in Int /\ 1 <= k /\ k <= n /\ n \in Int
      BY <1>0
    <3> HIDE DEF n
    <3>2. 1 .. k \subseteq 1 .. n /\ 1 \in 1 .. k
      BY <3>1
    <3>3. \A x : x \in 1 .. k - 1 <=> x \in 1 .. k /\ x # k
      BY <3>1
    <3> QED
      BY <3>2, <3>3
  <2>2. Max(1 .. k) = k
    <3>1. \A x \in 1 .. k : x \in Int /\ x <= k
      BY <1>0
    <3>2. k \in 1 .. k
      BY <1>0
    <3>3. \A x \in 1 .. k : (\A y \in 1 .. k : x >= y) => x = k
      BY <3>1, <3>2
    <3>4. \A y \in 1 .. k : k >= y
      BY <3>1
    <3> QED
      BY <3>2, <3>3, <3>4 DEF Max
  <2>3. g[1 .. k] = Follow(g[1 .. k - 1], rows[k])
    BY <1>5, <2>1, <2>2
  <2>4. k \in 0 .. n /\ k - 1 \in 0 .. n
    BY <1>0
  <2> QED
    BY <2>3, <2>4
<1>8. \A k \in 0 .. n : steps[k] \in Accs
  <2> DEFINE Wrong == {k \in 0 .. n : steps[k] \notin Accs}
  <2>1. SUFFICES ASSUME Wrong # {}
                 PROVE  FALSE
    OBVIOUS
  <2>2. PICK k \in Wrong : \A l \in Wrong : k <= l
    <3>1. Wrong \subseteq Nat
      BY <1>0
    <3> HIDE DEF Wrong
    <3> QED
      BY <2>1, <3>1, LeastNumber
  <2> HIDE DEF steps
  <2>0. NoAcc \in Accs
    BY DEF Accs, NoAcc
  <2>3. k # 0
    BY <1>6, <2>0, <2>2
  <2>4. k \in 1 .. n /\ k - 1 \in 0 .. n /\ ~(k <= k - 1)
    BY <1>0, <2>2, <2>3
  <2>5. steps[k - 1] \in Accs
    BY <2>2, <2>4
  <2> QED
    BY <1>0, <1>7, <2>2, <2>4, <2>5, FollowTyped
<1>9. Intervals(rows) = steps[n].intervals
  <2>1. n \in 0 .. n
    BY <1>0
  <2> QED
    BY <1>0, <1>1, <2>1 DEF g
<1>10. Steps(rows, steps)
  <2>1. steps \in [0 .. n -> Accs]
    <3>1. \A k \in 0 .. n : g[1 .. k] \in Accs
      BY <1>8
    <3> QED
      BY <3>1
  <2> HIDE DEF steps
  <2> QED
    BY <1>6, <1>7, <2>1 DEF Steps
<1> HIDE DEF steps
<1> QED
  BY <1>9, <1>10

\* Row k opens a stretch; the rows a .. b are one stretch or the front of one.
Opener(rows, k) == rows[k].kind = "session_start" \/ k = 1 \/ rows[k - 1].kind = "session_end"
Stretch(rows, a, b) == a <= b /\ Opener(rows, a) /\ \A x \in a + 1 .. b : ~Opener(rows, x)

\* What an interval says of the rows a .. b: its views are those at the rows
\* h[1] = a, h[2], ..., the later ones being all the view rows.
ViewsFit(rows, steps, iv, a, b, h) ==
    /\ h \in [1 .. Len(iv.views) -> a .. b]
    /\ Len(iv.views) >= 1 /\ h[1] = a
    /\ \A i, j \in 1 .. Len(iv.views) : i < j => h[i] < h[j]
    /\ \A i \in 1 .. Len(iv.views) : iv.views[i] = <<rows[h[i]].ts, steps[h[i]].view>>
    /\ \A x \in a + 1 .. b : rows[x].kind = "view" => \E i \in 1 .. Len(iv.views) : h[i] = x
IntervalFits(rows, steps, iv, a, b) ==
    /\ iv.start = rows[a].ts /\ iv.order = rows[a].id /\ iv.device = DeviceOf[rows[a].visit]
    /\ Len(iv.points) = b - a + 1
    /\ \A x \in a .. b : iv.points[x - a + 1] = rows[x].ts
    /\ \E h : ViewsFit(rows, steps, iv, a, b, h)

\* After k rows interval j is the stretch a .. b; only the last one can grow.
Placed(rows, steps, k, j, a, b) ==
    /\ 1 <= a /\ b <= k /\ Stretch(rows, a, b)
    /\ IntervalFits(rows, steps, steps[k].intervals[j], a, b)
    /\ IF j = Len(steps[k].intervals) THEN b = k ELSE b < k /\ Opener(rows, b + 1)
Gathered(rows, steps, k) ==
    /\ \A j \in 1 .. Len(steps[k].intervals) : \E a, b \in 1 .. k : Placed(rows, steps, k, j, a, b)
    /\ \A a \in 1 .. k : Opener(rows, a) =>
           \E j \in 1 .. Len(steps[k].intervals) : \E b \in 1 .. k : Placed(rows, steps, k, j, a, b)

\* What one row does to the step before it: it is open unless the session ends,
\* the view is that of the row or stays, and a stretch opens or goes on.
LEMMA StepFacts ==
    ASSUME NEW rows \in Seq(StoredRows), NEW steps, Steps(rows, steps), NEW k \in 1 .. Len(rows)
    PROVE  /\ k \in 0 .. Len(rows) /\ k - 1 \in 0 .. Len(rows) /\ k \in Int
           /\ rows[k] \in StoredRows
           /\ steps[k] \in Accs /\ steps[k - 1] \in Accs
           /\ steps[k].open <=> rows[k].kind # "session_end"
           /\ steps[k].view = IF rows[k].kind = "view" THEN rows[k].view ELSE steps[k - 1].view
           /\ Opener(rows, k) <=> rows[k].kind = "session_start" \/ ~steps[k - 1].open
<1>1. k \in 0 .. Len(rows) /\ k - 1 \in 0 .. Len(rows) /\ k \in Int /\ rows[k] \in StoredRows
  OBVIOUS
<1>2. steps[k] \in Accs /\ steps[k - 1] \in Accs /\ steps[k] = Follow(steps[k - 1], rows[k])
  BY <1>1 DEF Steps
<1>3. /\ steps[k].open = (rows[k].kind # "session_end")
      /\ steps[k].view = IF rows[k].kind = "view" THEN rows[k].view ELSE steps[k - 1].view
  BY <1>2, FollowFields
<1>4. CASE k = 1
  <2>1. ~steps[0].open
    BY DEF Steps, NoAcc
  <2>2. ~steps[k - 1].open
    BY <1>4, <2>1
  <2>3. Opener(rows, k)
    BY <1>4 DEF Opener
  <2> QED
    BY <1>1, <1>2, <1>3, <2>2, <2>3
<1>5. CASE k # 1
  <2>1. k - 1 \in 1 .. Len(rows) /\ k - 1 - 1 \in 0 .. Len(rows)
    BY <1>1, <1>5
  <2>2. steps[k - 1] = Follow(steps[k - 1 - 1], rows[k - 1])
    BY <2>1 DEF Steps
  <2>3. steps[k - 1].open = (rows[k - 1].kind # "session_end")
    BY <2>2, FollowFields
  <2> QED
    BY <1>1, <1>2, <1>3, <1>5, <2>3 DEF Opener
<1> QED
  BY <1>4, <1>5

\* The first row of a stretch starts an interval.
LEMMA FitsFirst ==
    ASSUME NEW rows, NEW steps, NEW k \in Int, NEW ts, NEW view,
           ts = rows[k].ts, view = steps[k].view
    PROVE  IntervalFits(rows, steps,
               [start |-> ts, order |-> rows[k].id, device |-> DeviceOf[rows[k].visit],
                points |-> <<ts>>, views |-> <<<<ts, view>>>>], k, k)
<1> DEFINE iv == [start |-> ts, order |-> rows[k].id, device |-> DeviceOf[rows[k].visit],
                  points |-> <<ts>>, views |-> <<<<ts, view>>>>]
           h  == [i \in {1} |-> k]
<1>1. Len(iv.views) = 1 /\ iv.views[1] = <<ts, view>> /\ 1 .. 1 = {1} /\ k .. k = {k}
  OBVIOUS
<1>2. ViewsFit(rows, steps, iv, k, k, h)
  <2>1. h \in [1 .. 1 -> k .. k] /\ h[1] = k
    BY <1>1
  <2>2. k + 1 .. k = {}
    OBVIOUS
  <2> HIDE DEF h, iv
  <2> QED
    BY <1>1, <2>1, <2>2 DEF ViewsFit
<1>3. Len(iv.points) = k - k + 1 /\ \A x \in k .. k : iv.points[x - k + 1] = rows[x].ts
  OBVIOUS
<1> QED
  BY <1>2, <1>3 DEF IntervalFits

\* Another row of the stretch makes the interval longer.
LEMMA FitsMore ==
    ASSUME NEW rows, NEW steps, NEW iv, NEW a \in Int, NEW b \in Int, a <= b,
           IntervalFits(rows, steps, iv, a, b), NEW S, iv.points \in Seq(S), NEW T, iv.views \in Seq(T),
           NEW ts \in S, NEW view, <<ts, view>> \in T,
           ts = rows[b + 1].ts, view = steps[b + 1].view,
           NEW seen \in BOOLEAN, seen <=> rows[b + 1].kind = "view",
           NEW longer,
           longer = [start |-> iv.start, order |-> iv.order, device |-> iv.device,
                     points |-> Append(iv.points, ts),
                     views |-> IF seen THEN Append(iv.views, <<ts, view>>) ELSE iv.views]
    PROVE  IntervalFits(rows, steps, longer, a, b + 1)
<1> DEFINE more == [start |-> iv.start, order |-> iv.order, device |-> iv.device,
                    points |-> Append(iv.points, ts),
                    views |-> IF seen THEN Append(iv.views, <<ts, view>>) ELSE iv.views]
<1>0. SUFFICES IntervalFits(rows, steps, more, a, b + 1)
  OBVIOUS
<1>1. PICK h : ViewsFit(rows, steps, iv, a, b, h)
  BY DEF IntervalFits
<1>2. /\ Len(more.points) = b + 1 - a + 1
      /\ \A x \in a .. b + 1 : more.points[x - a + 1] = rows[x].ts
  <2>1. /\ Len(iv.points) = b - a + 1
        /\ \A x \in a .. b : iv.points[x - a + 1] = rows[x].ts
    BY DEF IntervalFits
  <2>0. Len(iv.points) = b - a + 1
    BY <2>1
  <2>2. Len(more.points) = b - a + 2
    <3> DEFINE pts == iv.points
    <3>1. pts \in Seq(S) /\ more.points = Append(pts, ts) /\ Len(pts) = b - a + 1
      BY <2>0
    <3> HIDE DEF pts, more
    <3>2. Len(Append(pts, ts)) = Len(pts) + 1
      BY <3>1
    <3> QED
      BY <3>1, <3>2
  <2>3. ASSUME NEW x \in a .. b
        PROVE  more.points[x - a + 1] = rows[x].ts
    <3>1. x - a + 1 \in 1 .. Len(iv.points)
      <4>1. x - a + 1 \in 1 .. b - a + 1
        BY PlaceIn
      <4> QED
        BY <2>0, <4>1
    <3>2. more.points[x - a + 1] = iv.points[x - a + 1]
      BY <3>1
    <3> QED
      BY <2>1, <3>2
  <2>4. more.points[b + 1 - a + 1] = rows[b + 1].ts
    <3>1. b + 1 - a + 1 = Len(iv.points) + 1
      BY <2>0
    <3> QED
      BY <3>1
  <2> HIDE DEF more
  <2>5. Len(more.points) = b + 1 - a + 1
    BY <2>2
  <2>6. ASSUME NEW x \in a .. b + 1
        PROVE  more.points[x - a + 1] = rows[x].ts
    <3>1. CASE x = b + 1
      <4> DEFINE ix == x - a + 1
                 ib == b + 1 - a + 1
      <4>1. ix = ib
        BY <3>1
      <4>2. more.points[ib] = rows[x].ts
        BY <2>4, <3>1
      <4> HIDE DEF ix, ib
      <4>3. more.points[ix] = rows[x].ts
        BY <4>1, <4>2
      <4> QED
        BY <4>3 DEF ix
    <3>2. CASE x # b + 1
      <4>1. x \in a .. b
        BY <3>2
      <4> QED
        BY <2>3, <4>1
    <3> QED
      BY <3>1, <3>2
  <2> QED
    BY <2>5, <2>6
<1>3. /\ h \in [1 .. Len(iv.views) -> a .. b] /\ Len(iv.views) >= 1 /\ h[1] = a
      /\ \A i, j \in 1 .. Len(iv.views) : i < j => h[i] < h[j]
      /\ \A i \in 1 .. Len(iv.views) : iv.views[i] = <<rows[h[i]].ts, steps[h[i]].view>>
      /\ \A x \in a + 1 .. b : rows[x].kind = "view" => \E i \in 1 .. Len(iv.views) : h[i] = x
  BY <1>1 DEF ViewsFit
<1>4. CASE ~seen
  <2>1. more.views = iv.views
    BY <1>4
  <2>2. h \in [1 .. Len(iv.views) -> a .. b + 1]
    <3>1. a .. b \subseteq a .. b + 1
      OBVIOUS
    <3> QED
      BY <1>3, <3>1
  <2>3. ASSUME NEW x \in a + 1 .. b + 1, rows[x].kind = "view"
        PROVE  \E i \in 1 .. Len(iv.views) : h[i] = x
    <3>1. x # b + 1
      BY <1>4, <2>3
    <3>2. x \in a + 1 .. b
      BY <3>1
    <3> QED
      BY <1>3, <2>3, <3>2
  <2>4. ViewsFit(rows, steps, more, a, b + 1, h)
    <3> HIDE DEF more
    <3> QED
      BY <1>3, <2>1, <2>2, <2>3 DEF ViewsFit
  <2>5. /\ more.start = rows[a].ts /\ more.order = rows[a].id
        /\ more.device = DeviceOf[rows[a].visit]
    BY DEF IntervalFits
  <2> HIDE DEF more
  <2>6. IntervalFits(rows, steps, more, a, b + 1)
    BY <1>2, <2>4, <2>5 DEF IntervalFits
  <2> QED
    BY <2>6 DEF more
<1>5. CASE seen
  <2> DEFINE n  == Len(iv.views)
             nh == [i \in 1 .. n + 1 |-> IF i = n + 1 THEN b + 1 ELSE h[i]]
  <2>0. n \in Nat /\ Len(more.views) = n + 1
    BY <1>5
  <2>1. /\ \A i \in 1 .. n : more.views[i] = iv.views[i]
        /\ more.views[n + 1] = <<ts, view>>
    BY <1>5
  <2>2. /\ nh \in [1 .. n + 1 -> a .. b + 1] /\ nh[n + 1] = b + 1
        /\ \A i \in 1 .. n : nh[i] = h[i] /\ h[i] \in a .. b
    <3>0. h \in [1 .. n -> a .. b]
      BY <1>3
    <3> HIDE DEF n
    <3>1. \A i \in 1 .. n : i \in 1 .. n + 1 /\ i # n + 1 /\ h[i] \in a .. b
      BY <2>0, <3>0
    <3>2. b + 1 \in a .. b + 1 /\ n + 1 \in 1 .. n + 1 /\ a .. b \subseteq a .. b + 1
      BY <2>0
    <3>3. \A i \in 1 .. n + 1 : i = n + 1 \/ i \in 1 .. n
      BY <2>0
    <3>4. \A i \in 1 .. n + 1 : (IF i = n + 1 THEN b + 1 ELSE h[i]) \in a .. b + 1
      BY <3>1, <3>2, <3>3
    <3>5. nh \in [1 .. n + 1 -> a .. b + 1] /\ nh[n + 1] = b + 1
      BY <3>2, <3>4
    <3>6. \A i \in 1 .. n : nh[i] = h[i] /\ h[i] \in a .. b
      BY <3>1
    <3> QED
      BY <3>5, <3>6
  <2> HIDE DEF n, nh, more
  <2>3. n \in 1 .. n /\ 1 \in 1 .. n
    BY <1>3, <2>0 DEF n
  <2>4. ASSUME NEW i \in 1 .. n + 1, NEW j \in 1 .. n + 1, i < j
        PROVE  nh[i] < nh[j]
    <3>1. i \in 1 .. n
      BY <2>0, <2>4
    <3>2. CASE j = n + 1
      <4>1. nh[j] = b + 1 /\ nh[i] \in a .. b
        BY <2>2, <3>1, <3>2
      <4> QED
        BY <4>1
    <3>3. CASE j # n + 1
      <4>1. j \in 1 .. n
        BY <2>0, <3>3
      <4> QED
        BY <1>3, <2>2, <2>4, <3>1, <4>1 DEF n
    <3> QED
      BY <3>2, <3>3
  <2>5. ASSUME NEW i \in 1 .. n + 1
        PROVE  more.views[i] = <<rows[nh[i]].ts, steps[nh[i]].view>>
    <3>1. CASE i = n + 1
      BY <2>1, <2>2, <3>1
    <3>2. CASE i # n + 1
      <4>1. i \in 1 .. n
        BY <2>0, <3>2
      <4> QED
        BY <1>3, <2>1, <2>2, <4>1 DEF n
    <3> QED
      BY <3>1, <3>2
  <2>6. ASSUME NEW x \in a + 1 .. b + 1, rows[x].kind = "view"
        PROVE  \E i \in 1 .. n + 1 : nh[i] = x
    <3>1. CASE x = b + 1
      <4>1. n + 1 \in 1 .. n + 1
        BY <2>0
      <4> QED
        BY <2>2, <3>1, <4>1
    <3>2. CASE x # b + 1
      <4>1. x \in a + 1 .. b
        BY <3>2
      <4>2. PICK i \in 1 .. n : h[i] = x
        BY <1>3, <2>6, <4>1 DEF n
      <4>3. i \in 1 .. n + 1
        BY <2>0
      <4> QED
        BY <2>2, <4>2, <4>3
    <3> QED
      BY <3>1, <3>2
  <2>7. nh[1] = a
    BY <1>3, <2>2, <2>3
  <2>8. ViewsFit(rows, steps, more, a, b + 1, nh)
    <3>1. n + 1 >= 1
      BY <2>0
    <3> QED
      BY <2>0, <2>2, <2>4, <2>5, <2>6, <2>7, <3>1 DEF ViewsFit
  <2>9. /\ more.start = rows[a].ts /\ more.order = rows[a].id
        /\ more.device = DeviceOf[rows[a].visit]
    BY DEF IntervalFits, more
  <2>10. IntervalFits(rows, steps, more, a, b + 1)
    BY <1>2, <2>8, <2>9 DEF IntervalFits
  <2> QED
    BY <2>10 DEF more
<1> QED
  BY <1>4, <1>5

\* One more row: a new interval, or one more row of the last.
LEMMA GatheredMore ==
    ASSUME NEW rows \in Seq(StoredRows), NEW steps, Steps(rows, steps),
           NEW k \in 1 .. Len(rows), Gathered(rows, steps, k - 1)
    PROVE  Gathered(rows, steps, k)
<1> DEFINE r   == rows[k]
           old == steps[k - 1].intervals
           new == steps[k].intervals
           n   == Len(old)
           view == IF r.kind = "view" THEN r.view ELSE steps[k - 1].view
           opens == r.kind = "session_start" \/ ~steps[k - 1].open
           fresh == [start |-> r.ts, order |-> r.id, device |-> DeviceOf[r.visit],
                     points |-> <<r.ts>>, views |-> <<<<r.ts, view>>>>]
           longer == [start |-> old[n].start, order |-> old[n].order, device |-> old[n].device,
                      points |-> Append(old[n].points, r.ts),
                      views |-> IF r.kind = "view" THEN Append(old[n].views, <<r.ts, view>>)
                                                   ELSE old[n].views]
<1>1. /\ k \in Int /\ 1 <= k /\ k <= Len(rows) /\ Len(rows) \in Nat /\ r \in StoredRows
      /\ steps[k - 1] \in Accs /\ steps[k] \in Accs
      /\ steps[k].view = view /\ (Opener(rows, k) <=> opens)
  BY StepFacts
<1>2. /\ old \in Seq(Intvls) /\ n \in Nat /\ steps[k - 1].view \in Views \cup {NoView}
      /\ (steps[k - 1].open => n # 0)
  BY <1>1 DEF Accs
<1>3. new = IF opens THEN Append(old, fresh) ELSE [old EXCEPT ![n] = longer]
  <2> DEFINE ivs == IF opens THEN Append(old, fresh) ELSE [old EXCEPT ![n] = longer]
             o   == r.kind # "session_end"
  <2>1. steps[k] = Follow(steps[k - 1], rows[k])
    BY DEF Steps
  <2>2. Follow(steps[k - 1], rows[k]) = [intervals |-> ivs, open |-> o, view |-> view]
    BY DEF Follow
  <2> HIDE DEF ivs, o
  <2>3. steps[k].intervals = ivs
    <3> DEFINE st == steps[k]
               w  == view
    <3>1. st = Follow(steps[k - 1], rows[k])
      BY <2>1
    <3> HIDE DEF st, w
    <3>2. st = [intervals |-> ivs, open |-> o, view |-> w]
      BY <2>2, <3>1 DEF w
    <3>3. st.intervals = ivs
      BY <3>2
    <3> QED
      BY <3>3 DEF st
  <2> HIDE DEF old, fresh, longer, opens, n
  <2> QED
    BY <2>3 DEF ivs
<1>4. /\ \A j \in 1 .. n : \E a, b \in 1 .. k - 1 : Placed(rows, steps, k - 1, j, a, b)
      /\ \A a \in 1 .. k - 1 : Opener(rows, a) =>
             \E j \in 1 .. n : \E b \in 1 .. k - 1 : Placed(rows, steps, k - 1, j, a, b)
  BY DEF Gathered
<1>5. r.ts \in Int /\ r.view \in Views \cup {NoView} /\ view \in Views \cup {NoView}
  BY <1>1, <1>2 DEF StoredRows
<1>6. \A b \in 1 .. k - 1 : b \in 1 .. k /\ b < k
  BY <1>1
<1>7. k \in 1 .. k
  BY <1>1
<1>8. CASE opens
  <2>1. /\ Len(new) = n + 1 /\ new[n + 1] = fresh
        /\ \A j \in 1 .. n : new[j] = old[j]
    <3> HIDE DEF fresh, n, opens
    <3>1. new = Append(old, fresh)
      BY <1>3, <1>8
    <3> HIDE DEF new, old
    <3> QED
      BY <1>2, <3>1 DEF n
  <2>2. Opener(rows, k)
    BY <1>1, <1>8
  <2>3. Placed(rows, steps, k, n + 1, k, k)
    <3>1. IntervalFits(rows, steps, fresh, k, k)
      <4>1. r.ts = rows[k].ts /\ view = steps[k].view
        BY <1>1
      <4> HIDE DEF view
      <4> QED
        BY <1>1, <4>1, FitsFirst
    <3>2. Stretch(rows, k, k)
      BY <1>1, <2>2 DEF Stretch
    <3> HIDE DEF fresh
    <3> QED
      BY <1>1, <2>1, <3>1, <3>2 DEF Placed
  <2>4. ASSUME NEW j \in 1 .. n, NEW a \in 1 .. k - 1, NEW b \in 1 .. k - 1,
               Placed(rows, steps, k - 1, j, a, b)
        PROVE  Placed(rows, steps, k, j, a, b)
    <3>1. /\ 1 <= a /\ b <= k - 1 /\ Stretch(rows, a, b) /\ IntervalFits(rows, steps, old[j], a, b)
          /\ IF j = n THEN b = k - 1 ELSE b < k - 1 /\ Opener(rows, b + 1)
      BY <2>4 DEF Placed
    <3>2. j # n + 1
      BY <1>2
    <3>3. b < k /\ Opener(rows, b + 1)
      <4>1. CASE j = n
        <5>1. b = k - 1 /\ b + 1 = k
          BY <1>1, <3>1, <4>1
        <5> QED
          BY <1>1, <2>2, <5>1
      <4>2. CASE j # n
        BY <1>1, <3>1, <4>2
      <4> QED
        BY <4>1, <4>2
    <3>4. b <= k /\ new[j] = old[j]
      <4> HIDE DEF fresh, n, opens, new
      <4> QED
        BY <1>6, <2>1
    <3> HIDE DEF opens, fresh, n
    <3> QED
      BY <2>1, <3>1, <3>2, <3>3, <3>4 DEF Placed
  <2>5. ASSUME NEW j \in 1 .. Len(new)
        PROVE  \E a, b \in 1 .. k : Placed(rows, steps, k, j, a, b)
    <3> HIDE DEF new, n
    <3>1. CASE j = n + 1
      BY <1>7, <2>3, <3>1
    <3>2. CASE j # n + 1
      <4>1. j \in 1 .. n
        BY <1>2, <2>1, <3>2
      <4> QED
        BY <1>4, <1>6, <2>4, <4>1
    <3> QED
      BY <3>1, <3>2
  <2>6. ASSUME NEW a \in 1 .. k, Opener(rows, a)
        PROVE  \E j \in 1 .. Len(new) : \E b \in 1 .. k : Placed(rows, steps, k, j, a, b)
    <3> HIDE DEF new, n
    <3>0. n + 1 \in 1 .. Len(new) /\ \A j \in 1 .. n : j \in 1 .. Len(new)
      BY <1>2, <2>1
    <3>1. CASE a = k
      BY <1>7, <2>3, <3>0, <3>1
    <3>2. CASE a # k
      <4>1. a \in 1 .. k - 1
        BY <1>1, <3>2
      <4> QED
        BY <1>4, <1>6, <2>4, <2>6, <3>0, <4>1
    <3> QED
      BY <3>1, <3>2
  <2> QED
    BY <2>5, <2>6 DEF Gathered
<1>9. CASE ~opens
  <2>1. n # 0 /\ ~Opener(rows, k)
    BY <1>1, <1>2, <1>9
  <2>2. /\ Len(new) = n /\ new[n] = longer
        /\ \A j \in 1 .. n : j # n => new[j] = old[j]
    <3> HIDE DEF longer, n, opens
    <3>1. new = [old EXCEPT ![n] = longer]
      BY <1>3, <1>9
    <3>2. n \in 1 .. n
      BY <1>2, <2>1
    <3> HIDE DEF new, old
    <3> QED
      BY <1>2, <3>1, <3>2 DEF n
  <2>3. ASSUME NEW a \in 1 .. k - 1, NEW b \in 1 .. k - 1,
               Placed(rows, steps, k - 1, n, a, b)
        PROVE  Placed(rows, steps, k, n, a, k)
    <3>1. /\ 1 <= a /\ b = k - 1 /\ Stretch(rows, a, b) /\ IntervalFits(rows, steps, old[n], a, b)
      BY <2>3 DEF Placed
    <3>2. b + 1 = k /\ a \in Int /\ b \in Int
      BY <1>1, <3>1
    <3>3. a <= b /\ Opener(rows, a) /\ \A x \in a + 1 .. b : ~Opener(rows, x)
      BY <3>1 DEF Stretch
    <3>4. Stretch(rows, a, k)
      <4>1. \A x \in a + 1 .. k : x = k \/ x \in a + 1 .. b
        BY <3>2
      <4>2. a <= k
        BY <3>2, <3>3
      <4> QED
        BY <2>1, <3>3, <4>1, <4>2 DEF Stretch
    <3>5. old[n] \in Intvls
      BY <1>2, <2>1
    <3>6. old[n].points \in Seq(Int) /\ old[n].views \in Seq(Int \X (Views \cup {NoView}))
      BY <3>5 DEF Intvls
    <3>7. <<r.ts, view>> \in Int \X (Views \cup {NoView})
      BY <1>5
    <3>8. r.ts = rows[b + 1].ts /\ view = steps[b + 1].view
      BY <1>1, <3>2
    <3>9. IntervalFits(rows, steps, longer, a, k)
      <4> DEFINE iv   == old[n]
                 seen == r.kind = "view"
                 more == [start |-> iv.start, order |-> iv.order, device |-> iv.device,
                          points |-> Append(iv.points, r.ts),
                          views |-> IF seen THEN Append(iv.views, <<r.ts, view>>) ELSE iv.views]
      <4>1. seen \in BOOLEAN /\ (seen <=> rows[b + 1].kind = "view")
        BY <3>2
      <4>2. IntervalFits(rows, steps, more, a, b + 1)
        <5>1. IntervalFits(rows, steps, iv, a, b)
          BY <3>1
        <5>2. iv.points \in Seq(Int) /\ iv.views \in Seq(Int \X (Views \cup {NoView}))
          BY <3>6
        <5>3. more = [start |-> iv.start, order |-> iv.order, device |-> iv.device,
                      points |-> Append(iv.points, r.ts),
                      views |-> IF seen THEN Append(iv.views, <<r.ts, view>>) ELSE iv.views]
          OBVIOUS
        <5> HIDE DEF iv, view, seen, more
        <5> QED
          BY <1>5, <3>2, <3>3, <3>7, <3>8, <4>1, <5>1, <5>2, <5>3, FitsMore
      <4>3. more = longer
        OBVIOUS
      <4> HIDE DEF more, longer
      <4> QED
        BY <3>2, <4>2, <4>3
    <3> HIDE DEF longer, n, opens
    <3> QED
      BY <1>1, <2>2, <3>1, <3>4, <3>9 DEF Placed
  <2>4. ASSUME NEW j \in 1 .. n, NEW a \in 1 .. k - 1, NEW b \in 1 .. k - 1,
               Placed(rows, steps, k - 1, j, a, b), j # n
        PROVE  Placed(rows, steps, k, j, a, b)
    <3>1. /\ 1 <= a /\ b <= k - 1 /\ Stretch(rows, a, b) /\ IntervalFits(rows, steps, old[j], a, b)
          /\ b < k - 1 /\ Opener(rows, b + 1)
      BY <2>4 DEF Placed
    <3>2. b <= k /\ b < k
      BY <1>6
    <3>3. new[j] = old[j] /\ Len(new) = n
      <4> HIDE DEF longer, n, opens, new, old
      <4> QED
        BY <2>2, <2>4
    <3> HIDE DEF longer, n, opens
    <3> QED
      BY <2>4, <3>1, <3>2, <3>3 DEF Placed
  <2>5. ASSUME NEW j \in 1 .. n, NEW a \in 1 .. k - 1, NEW b \in 1 .. k - 1,
               Placed(rows, steps, k - 1, j, a, b)
        PROVE  \E c \in 1 .. k : Placed(rows, steps, k, j, a, c)
    <3>1. CASE j = n
      <4>1. Placed(rows, steps, k - 1, n, a, b)
        BY <2>5, <3>1
      <4>2. Placed(rows, steps, k, n, a, k)
        <5> HIDE DEF n
        <5> QED
          BY <2>3, <4>1
      <4> QED
        BY <1>7, <3>1, <4>2
    <3>2. CASE j # n
      <4> HIDE DEF n
      <4> QED
        BY <1>6, <2>4, <2>5, <3>2
    <3> QED
      BY <3>1, <3>2
  <2>6. ASSUME NEW j \in 1 .. Len(new)
        PROVE  \E a, b \in 1 .. k : Placed(rows, steps, k, j, a, b)
    <3>1. j \in 1 .. n
      <4> HIDE DEF longer, n, opens, new, old
      <4> QED
        BY <2>2, <2>6
    <3> HIDE DEF n, new
    <3>2. PICK a \in 1 .. k - 1, b \in 1 .. k - 1 : Placed(rows, steps, k - 1, j, a, b)
      BY <1>4, <3>1
    <3>3. a \in 1 .. k
      BY <1>6
    <3> QED
      BY <2>5, <3>1, <3>2, <3>3
  <2>7. ASSUME NEW a \in 1 .. k, Opener(rows, a)
        PROVE  \E j \in 1 .. Len(new) : \E b \in 1 .. k : Placed(rows, steps, k, j, a, b)
    <3>1. a # k
      BY <2>1, <2>7
    <3>2. a \in 1 .. k - 1
      BY <1>1, <3>1
    <3>3. Len(new) = n
      <4> HIDE DEF longer, n, opens, new, old
      <4> QED
        BY <2>2
    <3> HIDE DEF n, new
    <3>4. PICK j \in 1 .. n, b \in 1 .. k - 1 : Placed(rows, steps, k - 1, j, a, b)
      BY <1>4, <2>7, <3>2
    <3> QED
      BY <2>5, <3>2, <3>3, <3>4
  <2> QED
    BY <2>6, <2>7 DEF Gathered
<1> QED
  BY <1>8, <1>9

\* After all rows the intervals are the stretches.
LEMMA AllGathered ==
    ASSUME NEW rows \in Seq(StoredRows), NEW steps, Steps(rows, steps)
    PROVE  Gathered(rows, steps, Len(rows))
<1> DEFINE n     == Len(rows)
           Wrong == {k \in 0 .. n : ~Gathered(rows, steps, k)}
<1>0. n \in Nat /\ n \in 0 .. n
  OBVIOUS
<1>1. SUFFICES ASSUME Wrong # {}
               PROVE  FALSE
  BY <1>0
<1>2. PICK k \in Wrong : \A l \in Wrong : k <= l
  <2>1. Wrong \subseteq Nat
    BY <1>0
  <2> HIDE DEF Wrong
  <2> QED
    BY <1>1, <2>1, LeastNumber
<1>3. k # 0
  <2>1. steps[0].intervals = <<>> /\ Len(<<>>) = 0
    BY DEF Steps, NoAcc
  <2>2. 1 .. 0 = {}
    OBVIOUS
  <2>3. Gathered(rows, steps, 0)
    BY <2>1, <2>2 DEF Gathered
  <2> QED
    BY <1>2, <2>3
<1>4. k \in 1 .. n /\ k - 1 \in 0 .. n /\ ~(k <= k - 1)
  BY <1>0, <1>2, <1>3
<1>5. Gathered(rows, steps, k - 1)
  BY <1>2, <1>4
<1> QED
  BY <1>2, <1>4, <1>5, GatheredMore

\* The view lasts until the next view row.
LEMMA ViewLasts ==
    ASSUME NEW rows \in Seq(StoredRows), NEW steps, Steps(rows, steps),
           NEW a \in 0 .. Len(rows), NEW b \in a .. Len(rows),
           \A x \in a + 1 .. b : rows[x].kind # "view"
    PROVE  steps[b].view = steps[a].view
<1> DEFINE Wrong == {k \in a .. b : steps[k].view # steps[a].view}
<1>0. Len(rows) \in Nat /\ a \in Nat /\ b \in Nat /\ a <= b /\ b <= Len(rows) /\ b \in a .. b
  OBVIOUS
<1>1. SUFFICES ASSUME Wrong # {}
               PROVE  FALSE
  BY <1>0
<1>2. PICK k \in Wrong : \A l \in Wrong : k <= l
  <2>1. Wrong \subseteq Nat
    BY <1>0
  <2> HIDE DEF Wrong
  <2> QED
    BY <1>1, <2>1, LeastNumber
<1>3. k # a
  BY <1>2
<1>4. k \in 1 .. Len(rows) /\ k \in a + 1 .. b /\ k - 1 \in a .. b /\ ~(k <= k - 1)
  BY <1>0, <1>2, <1>3
<1>5. steps[k - 1].view = steps[a].view
  BY <1>2, <1>4
<1>6. steps[k].view = steps[k - 1].view
  BY <1>4, StepFacts
<1> QED
  BY <1>2, <1>5, <1>6

-----------------------------------------------------------------------------
(* The report of the usage log: a visit at one tick *)

Ordered(rows) == \A i, j \in 1 .. Len(rows) : i <= j => rows[i].ts <= rows[j].ts

\* In rows that are in the order of their times, those up to the last one at a
\* tick are those not after it.
LEMMA LastAtIs ==
    ASSUME NEW rows \in Seq(StoredRows), Ordered(rows), NEW u \in Int
    PROVE  /\ LastAt(rows, u) \in 0 .. Len(rows)
           /\ \A i \in 1 .. Len(rows) : rows[i].ts <= u <=> i <= LastAt(rows, u)
<1> DEFINE n == Len(rows)
           T == {i \in 1 .. n : rows[i].ts <= u}
           Caps == {k \in 0 .. n : \A i \in T : i <= k}
<1>0. n \in Nat /\ \A i \in 1 .. n : rows[i] \in StoredRows /\ rows[i].ts \in Int
  <2>1. \A i \in 1 .. n : rows[i] \in StoredRows
    OBVIOUS
  <2> QED
    BY <2>1 DEF StoredRows
<1>1. n \in Caps
  BY <1>0
<1>2. PICK k \in Caps : \A l \in Caps : k <= l
  <2>1. Caps \subseteq Nat /\ Caps # {}
    BY <1>0, <1>1
  <2> HIDE DEF Caps
  <2> QED
    BY <2>1, LeastNumber
<1>3. k \in Nat /\ k <= n /\ \A i \in T : i <= k
  BY <1>0, <1>2
<1>4. k # 0 => k \in T
  <2> SUFFICES ASSUME k # 0, k \notin T
               PROVE  FALSE
    OBVIOUS
  <2>1. \A i \in T : i \in Nat /\ i <= k /\ i # k
    BY <1>0, <1>3
  <2>2. k - 1 \in 0 .. n /\ ~(k <= k - 1)
    BY <1>0, <1>3
  <2>3. \A i \in T : i <= k - 1
    BY <1>3, <2>1
  <2>4. k - 1 \in Caps
    BY <2>2, <2>3
  <2> QED
    BY <1>2, <2>2, <2>4
<1>5. \A i \in 1 .. n : i \in T <=> i <= k
  <2> SUFFICES ASSUME NEW i \in 1 .. n, i <= k
               PROVE  i \in T
    BY <1>3
  <2>1. k \in 1 .. n /\ rows[k].ts <= u
    BY <1>0, <1>3, <1>4
  <2>2. rows[i].ts <= rows[k].ts
    BY <2>1 DEF Ordered
  <2> QED
    BY <1>0, <2>1, <2>2
<1>6. T = 1 .. k
  BY <1>0, <1>3, <1>5
<1>7. Cardinality(1 .. k) = k
  <2>1. 1 \in Int /\ k \in Int
    BY <1>3
  <2>2. Cardinality(1 .. k) = IF 1 > k THEN 0 ELSE k - 1 + 1
    BY <2>1, FS_Interval
  <2> QED
    BY <1>3, <2>2
<1>8. LastAt(rows, u) = k
  BY <1>6, <1>7 DEF LastAt
<1> QED
  BY <1>0, <1>3, <1>5, <1>8

\* The opening of a row is where its stretch begins.
LEMMA OpeningIs ==
    ASSUME NEW rows, NEW i \in Int, 1 <= i
    PROVE  /\ Opening(rows, i) \in 1 .. i /\ Stretch(rows, Opening(rows, i), i)
           /\ \A a \in 1 .. i : Stretch(rows, a, i) => a = Opening(rows, i)
<1> DEFINE T == {k \in 1 .. i : Opener(rows, k)}
<1>1. Opening(rows, i) = Max(T)
  BY DEF Opening, Opener
<1>2. T \subseteq Int /\ T # {} /\ \A x \in T : x <= i
  <2>1. 1 \in T
    BY DEF Opener
  <2> QED
    BY <2>1
<1>3. Max(T) \in T /\ \A y \in T : y <= Max(T)
  <2> HIDE DEF T
  <2> QED
    BY <1>2, MaxIs
<1> DEFINE m == Max(T)
<1>4. m \in 1 .. i /\ Opener(rows, m) /\ \A y \in T : y <= m
  BY <1>3
<1> HIDE DEF m
<1>5. \A x \in m + 1 .. i : ~Opener(rows, x)
  <2> SUFFICES ASSUME NEW x \in m + 1 .. i, Opener(rows, x)
               PROVE  FALSE
    OBVIOUS
  <2>1. x \in T /\ ~(x <= m)
    BY <1>4
  <2> QED
    BY <1>4, <2>1
<1>6. Stretch(rows, m, i)
  BY <1>4, <1>5 DEF Stretch
<1>7. ASSUME NEW a \in 1 .. i, Stretch(rows, a, i)
      PROVE  a = m
  <2>1. Opener(rows, a) /\ \A x \in a + 1 .. i : ~Opener(rows, x)
    BY <1>7 DEF Stretch
  <2>2. a <= m
    BY <1>4, <2>1
  <2>3. m \notin a + 1 .. i
    BY <1>4, <2>1
  <2> QED
    BY <1>4, <2>2, <2>3
<1> QED
  BY <1>1, <1>4, <1>6, <1>7 DEF m

\* The view at a tick is the view after the last row at it.
LEMMA ViewAtIs ==
    ASSUME NEW rows \in Seq(StoredRows), Ordered(rows), NEW steps, Steps(rows, steps), NEW u \in Int
    PROVE  ViewAt(rows, u) = steps[LastAt(rows, u)].view
<1> DEFINE l == LastAt(rows, u)
           seen == {i \in 1 .. l : rows[i].kind = "view"}
<1>0. l \in 0 .. Len(rows) /\ l \in Int /\ 0 <= l /\ l <= Len(rows) /\ Len(rows) \in Nat
  <2>1. l \in 0 .. Len(rows)
    BY LastAtIs
  <2>2. Len(rows) \in Nat
    OBVIOUS
  <2> HIDE DEF l
  <2> QED
    BY <2>1, <2>2
<1>1. ViewAt(rows, u) = IF seen = {} THEN NoView ELSE rows[Max(seen)].view
  BY DEF ViewAt
<1> HIDE DEF l
<1>2. CASE seen = {}
  <2>1. \A x \in 0 + 1 .. l : rows[x].kind # "view"
    BY <1>0, <1>2
  <2>2. 0 \in 0 .. Len(rows) /\ l \in 0 .. Len(rows)
    BY <1>0
  <2>3. steps[l].view = steps[0].view
    BY <2>1, <2>2, ViewLasts
  <2>4. steps[0].view = NoView
    BY DEF Steps, NoAcc
  <2> QED
    BY <1>1, <1>2, <2>3, <2>4 DEF l
<1>3. CASE seen # {}
  <2> DEFINE m == Max(seen)
  <2>1. m \in seen /\ \A y \in seen : y <= m
    <3>1. seen \subseteq Int /\ \A x \in seen : x <= l
      BY <1>0
    <3> HIDE DEF seen
    <3> QED
      BY <1>0, <1>3, <3>1, MaxIs
  <2> HIDE DEF m
  <2>2. m \in 1 .. Len(rows) /\ m \in 1 .. l /\ rows[m].kind = "view" /\ m \in 0 .. Len(rows)
    BY <1>0, <2>1
  <2>3. \A x \in m + 1 .. l : rows[x].kind # "view"
    <3> SUFFICES ASSUME NEW x \in m + 1 .. l, rows[x].kind = "view"
                 PROVE  FALSE
      OBVIOUS
    <3>1. x \in seen /\ ~(x <= m)
      BY <1>0, <2>2
    <3> QED
      BY <2>1, <3>1
  <2>4. l \in m .. Len(rows)
    BY <1>0, <2>2
  <2>5. steps[l].view = steps[m].view
    BY <2>2, <2>3, <2>4, ViewLasts
  <2>6. steps[m].view = rows[m].view
    BY <2>2, StepFacts
  <2> QED
    BY <1>1, <1>3, <2>5, <2>6 DEF l, m
<1> QED
  BY <1>2, <1>3

\* A change of view is the last one at tick u if it is not after u and the next
\* one is; there is one, and it has the view of the tick.
InView(iv, x, u) == iv.views[x][1] <= u /\ (x < Len(iv.views) => u < iv.views[x + 1][1])
RightViews(iv, rows, u) ==
    \A x \in 1 .. Len(iv.views) : InView(iv, x, u) => iv.views[x][2] = ViewAt(rows, u)
LEMMA ViewsAtTick ==
    ASSUME NEW rows \in Seq(StoredRows), Ordered(rows), NEW steps, Steps(rows, steps), NEW u \in Int,
           NEW iv, Len(iv.views) \in Nat, NEW a \in 1 .. Len(rows), NEW b \in 1 .. Len(rows),
           IntervalFits(rows, steps, iv, a, b), LastAt(rows, u) \in a .. b
    PROVE  /\ \E x \in 1 .. Len(iv.views) : InView(iv, x, u)
           /\ RightViews(iv, rows, u)
<1> DEFINE i == LastAt(rows, u)
           n == Len(iv.views)
<1>1. i \in Int /\ i \in 0 .. Len(rows) /\ i \in a .. b
      /\ \A y \in 1 .. Len(rows) : rows[y].ts <= u <=> y <= i
  BY LastAtIs
<1>2. PICK h : ViewsFit(rows, steps, iv, a, b, h)
  BY DEF IntervalFits
<1> HIDE DEF i
<1>3. /\ h \in [1 .. n -> a .. b] /\ n >= 1 /\ h[1] = a /\ n \in Nat
      /\ \A y, z \in 1 .. n : y < z => h[y] < h[z]
      /\ \A y \in 1 .. n : iv.views[y] = <<rows[h[y]].ts, steps[h[y]].view>>
      /\ \A y \in a + 1 .. b : rows[y].kind = "view" => \E z \in 1 .. n : h[z] = y
  BY <1>2 DEF ViewsFit
<1> HIDE DEF n
<1>4. \A y \in 1 .. n : /\ h[y] \in a .. b /\ h[y] \in 1 .. Len(rows)
                        /\ iv.views[y][1] = rows[h[y]].ts /\ iv.views[y][2] = steps[h[y]].view
  <2>1. a .. b \subseteq 1 .. Len(rows)
    OBVIOUS
  <2>2. \A y \in 1 .. n : h[y] \in a .. b
    BY <1>3
  <2>3. \A y \in 1 .. n : h[y] \in 1 .. Len(rows)
    BY <2>1, <2>2
  <2>4. \A y \in 1 .. n : iv.views[y] = <<rows[h[y]].ts, steps[h[y]].view>>
    BY <1>3
  <2>5. \A y \in 1 .. n : iv.views[y][1] = rows[h[y]].ts /\ iv.views[y][2] = steps[h[y]].view
    BY <2>4
  <2> QED
    BY <2>2, <2>3, <2>5
<1>5. \A y \in 1 .. n : iv.views[y][1] <= u <=> h[y] <= i
  BY <1>1, <1>4
<1>6. \A y \in 1 .. n : rows[h[y]].ts \in Int
  <2>1. \A y \in 1 .. Len(rows) : rows[y] \in StoredRows
    OBVIOUS
  <2> QED
    BY <1>4, <2>1 DEF StoredRows
<1>7. \A x \in 1 .. n : InView(iv, x, u) <=> h[x] <= i /\ (x < n => ~(h[x + 1] <= i))
  <2> SUFFICES ASSUME NEW x \in 1 .. n
               PROVE  InView(iv, x, u) <=> h[x] <= i /\ (x < n => ~(h[x + 1] <= i))
    OBVIOUS
  <2>1. CASE x < n
    <3>1. x + 1 \in 1 .. n
      BY <1>3, <2>1
    <3>2. u < iv.views[x + 1][1] <=> ~(iv.views[x + 1][1] <= u)
      <4>1. iv.views[x + 1][1] = rows[h[x + 1]].ts /\ rows[h[x + 1]].ts \in Int
        BY <1>4, <1>6, <3>1
      <4> DEFINE t == iv.views[x + 1][1]
      <4>2. t \in Int
        BY <4>1
      <4> HIDE DEF t
      <4>3. u < t <=> ~(t <= u)
        BY <4>2
      <4> QED
        BY <4>3 DEF t
    <3>3. iv.views[x + 1][1] <= u <=> h[x + 1] <= i
      BY <1>5, <3>1
    <3> QED
      BY <1>5, <2>1, <3>2, <3>3 DEF InView, n
  <2>2. CASE ~(x < n)
    BY <1>5, <2>2 DEF InView, n
  <2> QED
    BY <2>1, <2>2
<1>8. \E x \in 1 .. n : InView(iv, x, u)
  <2> DEFINE T == {y \in 1 .. n : h[y] <= i}
             m == Max(T)
  <2>1. T \subseteq Int /\ T # {} /\ n \in Int /\ \A x \in T : x <= n
    <3>1. 1 \in T
      BY <1>1, <1>3
    <3> QED
      BY <1>3, <3>1
  <2>2. m \in T /\ \A y \in T : y <= m
    <3> HIDE DEF T
    <3> QED
      BY <2>1, MaxIs
  <2> HIDE DEF m
  <2>3. m \in 1 .. n /\ h[m] <= i
    BY <2>2
  <2>4. m < n => ~(h[m + 1] <= i)
    <3> SUFFICES ASSUME m < n, h[m + 1] <= i
                 PROVE  FALSE
      OBVIOUS
    <3>1. m + 1 \in T /\ ~(m + 1 <= m)
      BY <1>3, <2>3
    <3> QED
      BY <2>2, <3>1
  <2> QED
    BY <1>7, <2>3, <2>4
<1>9. ASSUME NEW x \in 1 .. n, InView(iv, x, u)
      PROVE  iv.views[x][2] = ViewAt(rows, u)
  <2>1. h[x] <= i /\ (x < n => ~(h[x + 1] <= i))
    BY <1>7, <1>9
  <2> DEFINE hx == h[x]
  <2>2. hx \in a .. b /\ hx \in 1 .. Len(rows) /\ hx \in Int /\ hx <= i
    BY <1>4, <2>1
  <2> HIDE DEF hx
  <2>3. \A y \in hx + 1 .. i : rows[y].kind # "view"
    <3> SUFFICES ASSUME NEW y \in hx + 1 .. i, rows[y].kind = "view"
                 PROVE  FALSE
      OBVIOUS
    <3>0. i \in Int /\ i <= b /\ a \in Int /\ b \in Int
      BY <1>1
    <3>1. y \in a + 1 .. b /\ y \in Int /\ hx < y /\ y <= i
      BY <2>2, <3>0
    <3>2. PICK z \in 1 .. n : h[z] = y
      BY <1>3, <3>1
    <3>3. ~(z < x) /\ z # x
      <4>1. z < x => y < hx
        BY <1>3, <3>2 DEF hx
      <4>2. z = x => y = hx
        BY <3>2 DEF hx
      <4> QED
        BY <2>2, <3>1, <4>1, <4>2
    <3>4. x < n /\ x + 1 \in 1 .. n /\ (x + 1 = z \/ x + 1 < z)
      BY <1>3, <3>3
    <3> DEFINE hn == h[x + 1]
    <3>5. hn \in Int
      BY <1>4, <3>4
    <3>6. hn = y \/ hn < y
      BY <1>3, <3>2, <3>4
    <3> HIDE DEF hn
    <3>7. hn <= i
      <4>1. i \in Int /\ y \in Int /\ y <= i
        BY <3>0, <3>1
      <4> QED
        BY <3>5, <3>6, <4>1, AtMost
    <3> QED
      BY <2>1, <3>4, <3>7 DEF hn
  <2>4. hx \in 0 .. Len(rows) /\ i \in hx .. Len(rows)
    <3>1. i \in 0 .. Len(rows) /\ Len(rows) \in Nat
      BY <1>1
    <3> QED
      BY <2>2, <3>1
  <2>5. steps[i].view = steps[hx].view
    BY <2>3, <2>4, ViewLasts
  <2> QED
    BY <1>4, <2>5, ViewAtIs DEF i, hx
<1> QED
  BY <1>8, <1>9 DEF RightViews, n

\* A whole stretch of a visit and its interval.
Whole(rows, steps, iv, a, b) ==
    /\ a \in 1 .. Len(rows) /\ b \in 1 .. Len(rows) /\ Stretch(rows, a, b)
    /\ IntervalFits(rows, steps, iv, a, b) /\ (b = Len(rows) \/ Opener(rows, b + 1))
OneDevice(rows, d) == \A i \in 1 .. Len(rows) : DeviceOf[rows[i].visit] = d
Covered(span, u) == span[1] <= u /\ u < span[2]

\* The spans of a stretch hold the ticks at which the visit is in the foreground.
LEMMA SpansAtTick ==
    ASSUME NEW rows \in Seq(StoredRows), Ordered(rows), NEW steps, Steps(rows, steps), NEW u \in Int,
           NEW iv \in Intvls, NEW a, NEW b, Whole(rows, steps, iv, a, b),
           NEW d, OneDevice(rows, d)
    PROVE  /\ \A span \in Spans(iv) : span[1] \in Int /\ span[2] \in Int
           /\ \A span \in Spans(iv) : Covered(span, u) =>
                  LastAt(rows, u) \in a .. b /\ Opening(rows, LastAt(rows, u)) = a /\ Present(rows, u)
           /\ LastAt(rows, u) \in a .. b /\ Present(rows, u) => \E span \in Spans(iv) : Covered(span, u)
<1> DEFINE i == LastAt(rows, u)
           n == Len(rows)
           At(y) == rows[y].ts
<1>0. /\ n \in Nat /\ a \in Int /\ b \in Int /\ 1 <= a /\ a <= b /\ b <= n
      /\ Stretch(rows, a, b) /\ IntervalFits(rows, steps, iv, a, b)
      /\ (b = n \/ Opener(rows, b + 1)) /\ \A x \in a + 1 .. b : ~Opener(rows, x)
  BY DEF Whole, Stretch
<1>1. i \in Int /\ 0 <= i /\ i <= n /\ \A y \in 1 .. n : At(y) <= u <=> y <= i
  <2>1. /\ LastAt(rows, u) \in 0 .. Len(rows)
        /\ \A y \in 1 .. Len(rows) : rows[y].ts <= u <=> y <= LastAt(rows, u)
    BY LastAtIs
  <2> QED
    BY <1>0, <2>1
<1>2. \A y \in 1 .. n : rows[y] \in StoredRows /\ At(y) \in Int
  <2>1. \A y \in 1 .. n : rows[y] \in StoredRows
    OBVIOUS
  <2> QED
    BY <2>1 DEF StoredRows
<1> HIDE DEF i, n
<1>3. \A y \in 1 .. n : u < At(y) <=> i < y
  <2> SUFFICES ASSUME NEW y \in 1 .. n
               PROVE  u < At(y) <=> i < y
    OBVIOUS
  <2>1. At(y) \in Int /\ (At(y) <= u <=> y <= i)
    BY <1>1, <1>2
  <2> HIDE DEF At
  <2> QED
    BY <1>1, <2>1
<1>4. /\ iv.start = At(a) /\ iv.device = DeviceOf[rows[a].visit] /\ Len(iv.points) = b - a + 1
      /\ \A y \in a .. b : iv.points[y - a + 1] = At(y)
  BY <1>0 DEF IntervalFits
<1>5. iv.device = d /\ d \in {"phone", "tablet", "desktop"} /\ IdleGap \in Nat /\ MaxInterval \in Nat
  <2>1. a \in 1 .. n /\ rows[a].visit \in Visits
    BY <1>0, <1>2 DEF StoredRows
  <2> QED
    BY <1>4, <2>1, UsageAssumption DEF n, OneDevice
<1> DEFINE Gap == IF d = "desktop" THEN u < At(i) + IdleGap ELSE u < At(a) + MaxInterval
\* Inside the stretch the rule comes to one tick's row and its limit.
<1>6. i \in a .. b => Opening(rows, i) = a /\ (Present(rows, u) <=> i < b /\ Gap)
  <2> SUFFICES ASSUME i \in a .. b
               PROVE  Opening(rows, i) = a /\ (Present(rows, u) <=> i < b /\ Gap)
    OBVIOUS
  <2>1. Stretch(rows, a, i) /\ a \in 1 .. i /\ 1 <= i
    BY <1>0, <1>1 DEF Stretch
  <2>2. Opening(rows, i) = a
    BY <1>1, <2>1, OpeningIs
  <2>3. DeviceOf[rows[i].visit] = d
    BY <1>0, <1>1, <2>1 DEF n, OneDevice
  <2>4. Present(rows, u) <=> /\ i > 0 /\ i < n
                            /\ rows[i].kind # "session_end" /\ rows[i + 1].kind # "session_start"
                            /\ IF d = "desktop" THEN u < rows[i].ts + IdleGap
                               ELSE u < rows[a].ts + MaxInterval
    BY <2>2, <2>3 DEF Present, i, n
  <2>5. Opener(rows, i + 1) <=> rows[i + 1].kind = "session_start" \/ rows[i].kind = "session_end"
    BY <1>1, <2>1 DEF Opener
  <2>6. CASE i < b
    <3>1. i + 1 \in a + 1 .. b /\ i > 0 /\ i < n
      BY <1>0, <1>1, <2>1, <2>6
    <3>2. ~Opener(rows, i + 1)
      BY <1>0, <3>1
    <3> QED
      BY <2>2, <2>4, <2>5, <2>6, <3>1, <3>2
  <2>7. CASE ~(i < b)
    <3>1. i = b
      BY <1>0, <1>1, <2>7
    <3>2. ~(i < n) \/ Opener(rows, i + 1)
      BY <1>0, <3>1
    <3> QED
      BY <2>2, <2>4, <2>5, <2>7, <3>2
  <2> QED
    BY <2>6, <2>7
<1> DEFINE last == iv.points[Len(iv.points)]
<1>7. last = At(b)
  <2>1. Len(iv.points) = b - a + 1 /\ b \in a .. b
    BY <1>0, <1>4
  <2> HIDE DEF At
  <2> QED
    BY <1>4, <2>1
<1>8. a \in 1 .. n /\ b \in 1 .. n
  BY <1>0
<1>9. CASE d # "desktop"
  <2>1. Spans(iv) = {<<At(a), Lesser(At(b), At(a) + MaxInterval)>>}
    BY <1>4, <1>5, <1>7, <1>9 DEF Spans
  <2> DEFINE s == <<At(a), Lesser(At(b), At(a) + MaxInterval)>>
  <2>2. At(a) \in Int /\ At(b) \in Int
    BY <1>2, <1>8
  <2>3. (At(a) <= u <=> a <= i) /\ (u < At(b) <=> i < b)
    BY <1>1, <1>3, <1>8
  <2>4. Gap <=> u < At(a) + MaxInterval
    BY <1>9
  <2> HIDE DEF At, Gap
  <2>5. s[1] \in Int /\ s[2] \in Int
    BY <1>5, <2>2 DEF Lesser
  <2>6. Covered(s, u) <=> a <= i /\ i < b /\ Gap
    BY <1>5, <2>2, <2>3, <2>4 DEF Covered, Lesser
  <2> HIDE DEF s
  <2>7. \A span \in Spans(iv) : span = s
    BY <2>1 DEF s
  <2>8. s \in Spans(iv)
    BY <2>1 DEF s
  <2>9. a <= i /\ i < b => i \in a .. b
    BY <1>0, <1>1
  <2>10. i \in a .. b => a <= i
    BY <1>0, <1>1
  <2> QED
    BY <1>6, <2>5, <2>6, <2>7, <2>8, <2>9, <2>10 DEF i
<1>10. CASE d = "desktop"
  <2> DEFINE S(y) == <<At(y), Lesser(At(y + 1), At(y) + IdleGap)>>
  <2>1. Spans(iv) = {<<iv.points[x], Lesser(iv.points[x + 1], iv.points[x] + IdleGap)>> :
                        x \in 1 .. Len(iv.points) - 1}
    BY <1>5, <1>10 DEF Spans
  <2>2. ASSUME NEW y \in a .. b - 1
        PROVE  S(y) = <<iv.points[y - a + 1], Lesser(iv.points[y - a + 1 + 1], iv.points[y - a + 1] + IdleGap)>>
    <3>1. y \in a .. b /\ y + 1 \in a .. b /\ y + 1 - a + 1 = y - a + 1 + 1
      BY <1>0
    <3>2. iv.points[y - a + 1] = At(y) /\ iv.points[y - a + 1 + 1] = At(y + 1)
      <4> DEFINE z == y + 1
      <4>1. z \in a .. b /\ z - a + 1 = y - a + 1 + 1
        BY <1>0, <3>1
      <4> HIDE DEF z, At
      <4>2. iv.points[z - a + 1] = At(z) /\ iv.points[y - a + 1] = At(y)
        BY <1>4, <3>1, <4>1
      <4> QED
        BY <4>1, <4>2 DEF z
    <3> QED
      BY <3>2
  <2>3. ASSUME NEW span \in Spans(iv)
        PROVE  \E y \in a .. b - 1 : span = S(y)
    <3>1. PICK x \in 1 .. Len(iv.points) - 1 :
              span = <<iv.points[x], Lesser(iv.points[x + 1], iv.points[x] + IdleGap)>>
      BY <2>1
    <3> DEFINE y == a + x - 1
    <3>2. y \in a .. b - 1 /\ y - a + 1 = x
      <4>1. a \in Int /\ b \in Int /\ Len(iv.points) = b - a + 1
        BY <1>0, <1>4
      <4> QED
        BY <4>1
    <3> HIDE DEF S, y
    <3>3. S(y) = span
      BY <2>2, <3>1, <3>2
    <3> QED
      BY <3>2, <3>3
  <2>4. ASSUME NEW y \in a .. b - 1
        PROVE  S(y) \in Spans(iv)
    <3>1. y - a + 1 \in 1 .. Len(iv.points) - 1
      BY <1>0, <1>4
    <3> HIDE DEF S
    <3> QED
      BY <2>1, <2>2, <3>1
  <2>5. ASSUME NEW y \in a .. b - 1
        PROVE  /\ S(y)[1] \in Int /\ S(y)[2] \in Int
               /\ Covered(S(y), u) <=> y = i /\ u < At(y) + IdleGap
    <3>1. y \in 1 .. n /\ y + 1 \in 1 .. n /\ y \in Int
      BY <1>0
    <3>2. At(y) \in Int /\ At(y + 1) \in Int
      BY <1>2, <3>1
    <3>3. (At(y) <= u <=> y <= i) /\ (u < At(y + 1) <=> i < y + 1)
      BY <1>1, <1>3, <3>1
    <3> HIDE DEF At
    <3>4. S(y)[1] \in Int /\ S(y)[2] \in Int
      BY <1>5, <3>2 DEF Lesser
    <3>5. Covered(S(y), u) <=> y <= i /\ i < y + 1 /\ u < At(y) + IdleGap
      BY <1>5, <3>2, <3>3 DEF Covered, Lesser
    <3> QED
      BY <1>1, <3>1, <3>4, <3>5
  <2>6. Gap <=> u < At(i) + IdleGap
    BY <1>10
  <2> HIDE DEF At, Gap, S
  <2>7. \A span \in Spans(iv) : span[1] \in Int /\ span[2] \in Int
    BY <2>3, <2>5
  <2>8. ASSUME NEW span \in Spans(iv), Covered(span, u)
        PROVE  i \in a .. b /\ i < b /\ Gap
    <3>1. PICK y \in a .. b - 1 : span = S(y)
      BY <2>3
    <3>2. y = i /\ u < At(y) + IdleGap
      BY <2>5, <2>8, <3>1
    <3> QED
      BY <1>0, <2>6, <3>2
  <2>9. ASSUME i \in a .. b, i < b, Gap
        PROVE  \E span \in Spans(iv) : Covered(span, u)
    <3>1. i \in a .. b - 1
      BY <1>0, <2>9
    <3> QED
      BY <2>4, <2>5, <2>6, <2>9, <3>1
  <2> QED
    BY <1>6, <2>7, <2>8, <2>9 DEF i
<1> QED
  BY <1>9, <1>10

\* The slices of a stretch in the window hold these ticks of the window, each
\* with the view of the tick.
Running(s, u) == s.from <= u /\ s.to > u
Shown(iv, since, until, u) == \E s \in Slices(iv, since, until) : Running(s, u)
LEMMA SlicesAtTick ==
    ASSUME NEW rows \in Seq(StoredRows), Ordered(rows), NEW steps, Steps(rows, steps), NEW u \in Int,
           NEW iv \in Intvls, NEW a, NEW b, Whole(rows, steps, iv, a, b),
           NEW d, OneDevice(rows, d),
           NEW since \in Int, NEW until \in Int
    PROVE  /\ \A s \in Slices(iv, since, until) :
                  /\ s.from \in Int /\ s.to \in Int /\ since <= s.from /\ s.from < s.to /\ s.to <= until
                  /\ s.device = d /\ s.start = rows[a].ts /\ s.order = rows[a].id
           /\ \A s \in Slices(iv, since, until) : Running(s, u) =>
                  /\ Present(rows, u) /\ Opening(rows, LastAt(rows, u)) = a
                  /\ s.view = ViewAt(rows, u)
           /\ Present(rows, u) /\ LastAt(rows, u) \in a .. b /\ since <= u /\ u < until =>
                  Shown(iv, since, until, u)
<1> DEFINE n == Len(iv.views)
           To(span, i) == IF i < n THEN iv.views[i + 1][1] ELSE Lesser(span[2], until)
           Slice(span, i) == [from |-> Greater(Greater(span[1], since), iv.views[i][1]),
                              to |-> Lesser(Lesser(span[2], until), To(span, i)),
                              device |-> iv.device, view |-> iv.views[i][2],
                              start |-> iv.start, order |-> iv.order]
<1>1. Slices(iv, since, until) = {s \in {Slice(span, i) : span \in Spans(iv), i \in 1 .. n} : s.to > s.from}
  BY DEF Slices
<1>2. \A span \in Spans(iv) : span[1] \in Int /\ span[2] \in Int
  BY SpansAtTick
<1>3. n \in Nat /\ \A i \in 1 .. n : iv.views[i][1] \in Int
  <2>1. iv.views \in Seq(Int \X (Views \cup {NoView}))
    BY DEF Intvls
  <2>2. \A i \in 1 .. n : iv.views[i] \in Int \X (Views \cup {NoView})
    BY <2>1
  <2> QED
    BY <2>1, <2>2
<1>4. /\ a \in 1 .. Len(rows) /\ b \in 1 .. Len(rows) /\ IntervalFits(rows, steps, iv, a, b)
      /\ iv.start = rows[a].ts /\ iv.order = rows[a].id /\ iv.device = d
  BY DEF Whole, IntervalFits, OneDevice
<1> HIDE DEF n
<1>5. ASSUME NEW span \in Spans(iv), NEW i \in 1 .. n
      PROVE  /\ Slice(span, i).from \in Int /\ Slice(span, i).to \in Int
             /\ since <= Slice(span, i).from /\ Slice(span, i).to <= until
             /\ Running(Slice(span, i), u) <=>
                    since <= u /\ u < until /\ Covered(span, u) /\ InView(iv, i, u)
  <2> DEFINE s1 == span[1]
             s2 == span[2]
             v1 == iv.views[i][1]
             v2 == iv.views[i + 1][1]
             s  == Slice(span, i)
  <2>1. s1 \in Int /\ s2 \in Int /\ v1 \in Int /\ i \in Int
    BY <1>2, <1>3
  <2>2. i < n => v2 \in Int
    <3>1. i < n => i + 1 \in 1 .. n
      BY <1>3
    <3> QED
      BY <1>3, <3>1
  <2>3. /\ s.from = Greater(Greater(s1, since), v1)
        /\ s.to = Lesser(Lesser(s2, until), IF i < n THEN v2 ELSE Lesser(s2, until))
    OBVIOUS
  <2>4. /\ Covered(span, u) <=> s1 <= u /\ u < s2
        /\ InView(iv, i, u) <=> v1 <= u /\ (i < n => u < v2)
    BY DEF Covered, InView, n
  <2> HIDE DEF s, s1, s2, v1, v2
  <2>5. s.from \in Int /\ since <= s.from /\ (s.from <= u <=> s1 <= u /\ since <= u /\ v1 <= u)
    BY <2>1, <2>3 DEF Greater
  <2>6. s.to \in Int /\ s.to <= until /\ (s.to > u <=> u < s2 /\ u < until /\ (i < n => u < v2))
    BY <2>1, <2>2, <2>3 DEF Lesser
  <2>7. Running(s, u) <=> s.from <= u /\ s.to > u
    BY DEF Running
  <2> QED
    BY <2>4, <2>5, <2>6, <2>7 DEF s
<1>6. \A span, i : /\ Slice(span, i).device = d /\ Slice(span, i).start = rows[a].ts
                   /\ Slice(span, i).order = rows[a].id /\ Slice(span, i).view = iv.views[i][2]
  BY <1>4
<1> HIDE DEF Slice
<1>7. ASSUME NEW s \in Slices(iv, since, until)
      PROVE  \E span \in Spans(iv), i \in 1 .. n : s = Slice(span, i) /\ s.to > s.from
  BY <1>1
<1>8. ASSUME NEW s \in Slices(iv, since, until)
      PROVE  /\ s.from \in Int /\ s.to \in Int /\ since <= s.from /\ s.from < s.to /\ s.to <= until
             /\ s.device = d /\ s.start = rows[a].ts /\ s.order = rows[a].id
  <2>1. PICK span \in Spans(iv), i \in 1 .. n : s = Slice(span, i) /\ s.to > s.from
    BY <1>7
  <2>2. s.from \in Int /\ s.to \in Int /\ since <= s.from /\ s.to <= until
    BY <1>5, <2>1
  <2> QED
    BY <1>6, <2>1, <2>2
<1>9. ASSUME LastAt(rows, u) \in a .. b
      PROVE  /\ \E x \in 1 .. n : InView(iv, x, u)
             /\ \A x \in 1 .. n : InView(iv, x, u) => iv.views[x][2] = ViewAt(rows, u)
  <2>1. Len(iv.views) \in Nat
    BY <1>3 DEF n
  <2>2. \E x \in 1 .. Len(iv.views) : InView(iv, x, u)
    BY <1>4, <1>9, <2>1, ViewsAtTick
  <2>3. RightViews(iv, rows, u)
    BY <1>4, <1>9, <2>1, ViewsAtTick
  <2> QED
    BY <2>2, <2>3 DEF RightViews, n
<1>10. ASSUME NEW s \in Slices(iv, since, until), Running(s, u)
       PROVE  /\ Present(rows, u) /\ Opening(rows, LastAt(rows, u)) = a /\ s.view = ViewAt(rows, u)
  <2>1. PICK span \in Spans(iv), i \in 1 .. n : s = Slice(span, i)
    BY <1>7
  <2>2. Covered(span, u) /\ InView(iv, i, u)
    BY <1>5, <1>10, <2>1
  <2>3. LastAt(rows, u) \in a .. b /\ Opening(rows, LastAt(rows, u)) = a /\ Present(rows, u)
    BY <2>2, SpansAtTick
  <2>4. iv.views[i][2] = ViewAt(rows, u)
    BY <1>9, <2>2, <2>3
  <2> QED
    BY <1>6, <2>1, <2>3, <2>4
<1>11. ASSUME Present(rows, u), LastAt(rows, u) \in a .. b, since <= u, u < until
       PROVE  \E s \in Slices(iv, since, until) : Running(s, u)
  <2>1. PICK span \in Spans(iv) : Covered(span, u)
    BY <1>11, SpansAtTick
  <2>2. PICK i \in 1 .. n : InView(iv, i, u)
    BY <1>11, <1>9
  <2>3. Running(Slice(span, i), u)
    BY <1>5, <1>11, <2>1, <2>2
  <2>4. Slice(span, i).to > Slice(span, i).from
    <3>1. Slice(span, i).from \in Int /\ Slice(span, i).to \in Int
      BY <1>5
    <3> QED
      BY <2>3, <3>1 DEF Running
  <2>5. Slice(span, i) \in Slices(iv, since, until)
    BY <1>1, <2>4
  <2> QED
    BY <2>3, <2>5
<1> QED
  BY <1>8, <1>10, <1>11 DEF Shown

-----------------------------------------------------------------------------
(* The report of the usage log: all visits at one tick *)

\* A selection keeps the order.
LEMMA ChosenOrder ==
    ASSUME NEW S, NEW s \in Seq(S), NEW I \in SUBSET (1 .. Len(s)),
           NEW k \in 1 .. Cardinality(I), NEW l \in 1 .. Cardinality(I), k <= l
    PROVE  \E p, q \in I : p <= q /\ Chosen(s, I)[k] = s[p] /\ Chosen(s, I)[l] = s[q]
<1> DEFINE Below(i) == {j \in I : j <= i}
           At(m) == CHOOSE i \in I : Cardinality(Below(i)) = m
<1>0. Len(s) \in Nat /\ \A i \in I : i \in Int
  OBVIOUS
<1>1. IsFiniteSet(I) /\ Cardinality(I) \in Nat
  BY <1>0, FS_Interval, FS_Subset, FS_CardinalityType, 1 \in Int, Len(s) \in Int
<1>2. ASSUME NEW m \in 1 .. Cardinality(I)
      PROVE  At(m) \in I /\ Cardinality(Below(At(m))) = m /\ Chosen(s, I)[m] = s[At(m)]
  <2>1. \E i \in I : Cardinality(Below(i)) = m
    BY <1>0, RankReached
  <2>2. Chosen(s, I)[m] = s[At(m)]
    BY DEF Chosen
  <2> HIDE DEF Below
  <2> QED
    BY <2>1, <2>2
<1>3. /\ At(k) \in I /\ Cardinality(Below(At(k))) = k /\ Chosen(s, I)[k] = s[At(k)]
      /\ At(l) \in I /\ Cardinality(Below(At(l))) = l /\ Chosen(s, I)[l] = s[At(l)]
  BY <1>2
<1> HIDE DEF At
<1>4. SUFFICES ASSUME ~(At(k) <= At(l))
               PROVE  FALSE
  BY <1>3
<1>5. Below(At(l)) \in SUBSET Below(At(k)) /\ At(k) \notin Below(At(l)) /\ At(k) \in Below(At(k))
  <2>1. At(k) \in Int /\ At(l) \in Int
    BY <1>0, <1>3
  <2>2. At(l) < At(k)
    BY <1>4, <2>1
  <2>3. \A j \in I : j <= At(l) => j <= At(k)
    BY <1>0, <2>1, <2>2
  <2>4. Below(At(l)) \in SUBSET Below(At(k))
    BY <2>3
  <2>5. At(k) \notin Below(At(l))
    BY <1>4
  <2>6. At(k) \in Below(At(k))
    BY <1>3, <2>1
  <2> QED
    BY <2>4, <2>5, <2>6
<1>6. IsFiniteSet(Below(At(k)))
  <2>1. Below(At(k)) \in SUBSET I
    OBVIOUS
  <2> HIDE DEF Below
  <2> QED
    BY <1>1, <2>1, FS_Subset
<1> HIDE DEF Below
<1>7. /\ Cardinality(Below(At(l))) <= Cardinality(Below(At(k)))
      /\ Cardinality(Below(At(l))) = Cardinality(Below(At(k))) => Below(At(l)) = Below(At(k))
  BY <1>5, <1>6, FS_Subset
<1>8. l <= k
  BY <1>3, <1>7
<1>9. l = k
  BY <1>1, <1>8
<1> QED
  BY <1>3, <1>5, <1>7, <1>9

\* The rows of a visit are rows of the table in the order of their times.
LEMMA RowsOfFacts ==
    ASSUME UsageInv, NEW v
    PROVE  /\ RowsOf(v) \in Seq(StoredRows) /\ Ordered(RowsOf(v))
           /\ \A i \in 1 .. Len(RowsOf(v)) :
                  RowsOf(v)[i].visit = v /\ \E p \in 1 .. Len(table) : RowsOf(v)[i] = table[p]
<1> DEFINE I == {i \in 1 .. Len(table) : table[i].visit = v}
           rows == Chosen(table, I)
<1>0. table \in Seq(StoredRows) /\ DOMAIN table = 1 .. Len(table) /\ Len(table) \in Nat
  BY DEF UsageInv, UsageTypes
<1>1. RowsOf(v) = rows
  BY <1>0 DEF RowsOf
<1>2. I \in SUBSET (1 .. Len(table))
  OBVIOUS
<1>3. rows \in Seq(StoredRows) /\ Len(rows) = Cardinality(I)
  <2>1. \A i \in I : table[i] \in StoredRows
    BY <1>0
  <2> HIDE DEF I
  <2> QED
    BY <1>0, <1>2, <2>1, ChosenType
<1>4. ASSUME NEW k \in 1 .. Len(rows), NEW l \in 1 .. Len(rows), k <= l
      PROVE  \E p, q \in I : p <= q /\ rows[k] = table[p] /\ rows[l] = table[q]
  <2> HIDE DEF I
  <2> QED
    <3>1. k \in 1 .. Cardinality(I) /\ l \in 1 .. Cardinality(I)
      BY <1>3
    <3> QED
      BY <1>0, <1>2, <1>4, <3>1, ChosenOrder
<1> HIDE DEF rows
<1>5. Ordered(rows)
  <2> SUFFICES ASSUME NEW k \in 1 .. Len(rows), NEW l \in 1 .. Len(rows), k <= l
               PROVE  rows[k].ts <= rows[l].ts
    BY DEF Ordered
  <2>1. PICK p \in I, q \in I : p <= q /\ rows[k] = table[p] /\ rows[l] = table[q]
    BY <1>4
  <2>2. p \in 1 .. Len(table) /\ q \in 1 .. Len(table)
    OBVIOUS
  <2> HIDE DEF I
  <2>3. table[p].ts <= table[q].ts
    BY <2>1, <2>2 DEF UsageInv, AgesInv
  <2> QED
    BY <2>1, <2>3
<1>6. ASSUME NEW i \in 1 .. Len(rows)
      PROVE  rows[i].visit = v /\ \E p \in 1 .. Len(table) : rows[i] = table[p]
  <2>1. i <= i
    BY <1>3
  <2>2. PICK p \in I : rows[i] = table[p]
    BY <1>4, <2>1
  <2> QED
    BY <2>2
<1> QED
  BY <1>1, <1>3, <1>5, <1>6

\* The row that opened the stretch of the visit at tick u.
OpenedBy(v, u) == RowsOf(v)[Opening(RowsOf(v), LastAt(RowsOf(v), u))]
Shows(s, v, u) ==
    /\ Present(RowsOf(v), u)
    /\ s.device = DeviceOf[v] /\ s.view = ViewAt(RowsOf(v), u)
    /\ s.start = OpenedBy(v, u).ts /\ s.order = OpenedBy(v, u).id
InWindow(s, since, until) ==
    s.from \in Int /\ s.to \in Int /\ since <= s.from /\ s.from < s.to /\ s.to <= until
SlicesOf(v, since, until) == UNION {Slices(iv, since, until) : iv \in ToSet(Intervals(RowsOf(v)))}

\* A visit that is in the foreground at a tick has a row that opened its stretch
\* and a row later than the tick, so the window's look-back does not leave it out.
LEMMA PresentFacts ==
    ASSUME UsageInv, NEW v \in Visits, NEW u \in Int, Present(RowsOf(v), u)
    PROVE  /\ u < clock
           /\ \E p \in 1 .. Len(table) : OpenedBy(v, u) = table[p] /\ table[p].visit = v
           /\ \E q \in 1 .. Len(table) : table[q].visit = v /\ u < table[q].ts /\ table[q].ts <= clock
<1> DEFINE rows == RowsOf(v)
           i == LastAt(rows, u)
<1>1. /\ rows \in Seq(StoredRows) /\ Ordered(rows)
      /\ \A k \in 1 .. Len(rows) : rows[k].visit = v /\ \E p \in 1 .. Len(table) : rows[k] = table[p]
  BY RowsOfFacts
<1>2. clock \in Int /\ \A p \in 1 .. Len(table) : table[p].ts <= clock
  BY DEF UsageInv, UsageTypes, AgesInv
<1>3. i > 0 /\ i < Len(rows)
  BY DEF Present
<1> HIDE DEF rows
<1>4. i \in 0 .. Len(rows) /\ Len(rows) \in Nat /\ \A k \in 1 .. Len(rows) : rows[k].ts <= u <=> k <= i
  <2>1. Len(rows) \in Nat
    BY <1>1
  <2>2. i \in 0 .. Len(rows) /\ \A k \in 1 .. Len(rows) : rows[k].ts <= u <=> k <= i
    BY <1>1, LastAtIs
  <2> QED
    BY <2>1, <2>2
<1> HIDE DEF i
<1>5. i \in Int /\ 1 <= i /\ i + 1 \in 1 .. Len(rows) /\ ~(i + 1 <= i) /\ i \in 1 .. Len(rows)
  BY <1>3, <1>4
<1>6. Opening(rows, i) \in 1 .. i
  BY <1>5, OpeningIs
<1>7. Opening(rows, i) \in 1 .. Len(rows)
  BY <1>4, <1>5, <1>6
<1>8. ~(rows[i + 1].ts <= u) /\ rows[i + 1].ts \in Int
  <2>1. rows[i + 1] \in StoredRows
    BY <1>1, <1>5
  <2> QED
    BY <1>4, <1>5, <2>1 DEF StoredRows
<1>9. PICK q \in 1 .. Len(table) : rows[i + 1] = table[q] /\ table[q].visit = v
  BY <1>1, <1>5
<1>10. u < table[q].ts /\ table[q].ts <= clock /\ u < clock
  BY <1>2, <1>8, <1>9
<1>11. PICK p \in 1 .. Len(table) : rows[Opening(rows, i)] = table[p] /\ table[p].visit = v
  BY <1>1, <1>7
<1>12. OpenedBy(v, u) = table[p]
  BY <1>11 DEF OpenedBy, rows, i
<1> QED
  BY <1>9, <1>10, <1>11, <1>12

\* The slices of a visit hold the ticks of the window at which it is in the
\* foreground.
LEMMA VisitAtTick ==
    ASSUME UsageInv, NEW v \in Visits, NEW u \in Int, NEW since \in Int, NEW until \in Int
    PROVE  /\ \A s \in SlicesOf(v, since, until) :
                  InWindow(s, since, until) /\ (Running(s, u) => Shows(s, v, u))
           /\ Present(RowsOf(v), u) /\ since <= u /\ u < until =>
                  \E s \in SlicesOf(v, since, until) : Running(s, u)
<1> DEFINE rows == RowsOf(v)
           n == Len(rows)
           ivs == Intervals(rows)
           i == LastAt(rows, u)
<1>1. /\ rows \in Seq(StoredRows) /\ Ordered(rows)
      /\ \A k \in 1 .. Len(rows) : rows[k].visit = v
  BY RowsOfFacts
<1> HIDE DEF rows
<1>2. PICK steps : Steps(rows, steps) /\ ivs = steps[n].intervals
  BY <1>1, IntervalsByStep
<1>3. Gathered(rows, steps, n)
  BY <1>1, <1>2, AllGathered
<1>4. ivs \in Seq(Intvls) /\ n \in Nat /\ DOMAIN ivs = 1 .. Len(ivs)
  <2>1. n \in Nat /\ n \in 0 .. n
    BY <1>1
  <2>2. steps[n] \in Accs
    BY <1>2, <2>1 DEF Steps
  <2> QED
    BY <1>2, <2>1, <2>2 DEF Accs
<1>5. OneDevice(rows, DeviceOf[v])
  BY <1>1 DEF OneDevice
<1>6. ASSUME NEW j \in 1 .. Len(ivs), NEW a \in 1 .. n, NEW b \in 1 .. n, Placed(rows, steps, n, j, a, b)
      PROVE  ivs[j] \in Intvls /\ Whole(rows, steps, ivs[j], a, b)
  <2>1. ivs[j] \in Intvls
    BY <1>4
  <2> HIDE DEF ivs
  <2>2. Stretch(rows, a, b) /\ IntervalFits(rows, steps, ivs[j], a, b) /\ (b = n \/ Opener(rows, b + 1))
    BY <1>2, <1>6 DEF Placed
  <2> QED
    BY <2>1, <2>2 DEF Whole
<1> HIDE DEF ivs
<1>7. ASSUME NEW s \in SlicesOf(v, since, until)
      PROVE  InWindow(s, since, until) /\ (Running(s, u) => Shows(s, v, u))
  <2>1. PICK j \in 1 .. Len(ivs) : s \in Slices(ivs[j], since, until)
    BY <1>4 DEF SlicesOf, ToSet, ivs, rows
  <2>2. PICK a \in 1 .. n, b \in 1 .. n : Placed(rows, steps, n, j, a, b)
    BY <1>2, <1>3 DEF Gathered
  <2>3. ivs[j] \in Intvls /\ Whole(rows, steps, ivs[j], a, b)
    BY <1>6, <2>2
  <2>4. /\ s.from \in Int /\ s.to \in Int /\ since <= s.from /\ s.from < s.to /\ s.to <= until
        /\ s.device = DeviceOf[v] /\ s.start = rows[a].ts /\ s.order = rows[a].id
    BY <1>1, <1>2, <1>5, <2>1, <2>3, SlicesAtTick
  <2>5. Running(s, u) => Present(rows, u) /\ Opening(rows, i) = a /\ s.view = ViewAt(rows, u)
    BY <1>1, <1>2, <1>5, <2>1, <2>3, SlicesAtTick
  <2> QED
    BY <2>4, <2>5 DEF InWindow, Shows, OpenedBy, rows
<1>8. ASSUME Present(rows, u), since <= u, u < until
      PROVE  \E s \in SlicesOf(v, since, until) : Running(s, u)
  <2>1. i \in 1 .. n /\ i \in Int /\ 1 <= i
    <3>1. i > 0 /\ i < n
      BY <1>8 DEF Present
    <3>2. i \in 0 .. n
      BY <1>1, LastAtIs
    <3> HIDE DEF i, n
    <3> QED
      BY <1>4, <3>1, <3>2
  <2> HIDE DEF i
  <2> DEFINE a == Opening(rows, i)
  <2>2. a \in 1 .. i /\ Stretch(rows, a, i)
    BY <2>1, OpeningIs
  <2>3. a \in 1 .. n /\ Opener(rows, a) /\ a \in Int /\ \A x \in a + 1 .. i : ~Opener(rows, x)
    BY <1>4, <2>1, <2>2 DEF Stretch
  <2> HIDE DEF a
  <2>4. PICK j \in 1 .. Len(ivs), b \in 1 .. n : Placed(rows, steps, n, j, a, b)
    BY <1>2, <1>3, <2>3 DEF Gathered
  <2>5. ivs[j] \in Intvls /\ Whole(rows, steps, ivs[j], a, b)
    BY <1>6, <2>3, <2>4
  <2>6. i \in a .. b
    <3>1. b = n \/ Opener(rows, b + 1)
      BY <2>5 DEF Whole
    <3>2. a <= b
      BY <2>5 DEF Whole, Stretch
    <3> QED
      BY <1>4, <2>1, <2>2, <2>3, <3>1, <3>2
  <2>7. PICK s \in Slices(ivs[j], since, until) : Running(s, u)
    <3>1. LastAt(rows, u) \in a .. b
      BY <2>6 DEF i
    <3>2. Shown(ivs[j], since, until, u)
      BY <1>1, <1>2, <1>5, <1>8, <2>5, <3>1, SlicesAtTick
    <3> QED
      BY <3>2 DEF Shown
  <2>8. s \in SlicesOf(v, since, until)
    BY <1>4 DEF SlicesOf, ToSet, ivs, rows
  <2> QED
    BY <2>7, <2>8
<1> QED
  BY <1>7, <1>8 DEF rows

\* The slices of all visits hold just the visits that are in the foreground.
LEMMA AllAtTick ==
    ASSUME UsageInv, NEW u \in Int, NEW since \in Int
    PROVE  LET all == AllSlices(since, clock)
           IN  /\ \A s \in all : InWindow(s, since, clock)
               /\ \A s \in all : Running(s, u) => \E v \in Visits : Shows(s, v, u)
               /\ \A v \in Visits : Present(RowsOf(v), u) /\ since <= u =>
                      \E s \in all : Running(s, u) /\ Shows(s, v, u)
<1> DEFINE all == AllSlices(since, clock)
           recent == Recent(since, clock)
<1>0. clock \in Int /\ table \in Seq(StoredRows) /\ Len(table) \in Nat
  BY DEF UsageInv, UsageTypes
<1>1. all = UNION {SlicesOf(v, since, clock) : v \in recent}
  BY DEF AllSlices, SlicesOf
<1>2. \A p \in 1 .. Len(table) : table[p] \in StoredRows /\ table[p].visit \in Visits /\ table[p].ts \in Int
  <2>1. \A p \in 1 .. Len(table) : table[p] \in StoredRows
    BY <1>0
  <2> QED
    BY <2>1 DEF StoredRows
<1>3. recent \subseteq Visits
  <2>1. \A r \in ToSet(table) : r.visit \in Visits
    BY <1>0, <1>2 DEF ToSet
  <2> QED
    BY <2>1 DEF Recent
<1> HIDE DEF all
<1>4. ASSUME NEW s \in all
      PROVE  InWindow(s, since, clock) /\ (Running(s, u) => \E v \in Visits : Shows(s, v, u))
  <2>1. PICK v \in recent : s \in SlicesOf(v, since, clock)
    BY <1>1
  <2>2. v \in Visits
    BY <1>3
  <2> HIDE DEF recent
  <2> QED
    BY <1>0, <2>1, <2>2, VisitAtTick
<1>5. ASSUME NEW v \in Visits, Present(RowsOf(v), u), since <= u
      PROVE  \E s \in all : Running(s, u) /\ Shows(s, v, u)
  <2>1. u < clock
    BY <1>5, PresentFacts
  <2>2. PICK q \in 1 .. Len(table) : table[q].visit = v /\ u < table[q].ts /\ table[q].ts <= clock
    BY <1>5, PresentFacts
  <2>3. v \in recent
    <3> DEFINE back == Greater(IdleGap, MaxInterval)
    <3>1. back \in Nat
      BY UsageAssumption DEF Greater
    <3>2. table[q] \in ToSet(table)
      BY <1>0 DEF ToSet
    <3>3. recent = {r.visit : r \in {x \in ToSet(table) : x.ts >= since - back /\ x.ts <= clock}}
      BY DEF Recent
    <3> HIDE DEF recent, back
    <3>4. table[q].ts \in Int
      BY <1>2
    <3>5. table[q].ts >= since - back
      BY <1>5, <2>2, <3>1, <3>4
    <3> QED
      BY <2>2, <3>2, <3>3, <3>5
  <2> HIDE DEF recent
  <2>4. PICK s \in SlicesOf(v, since, clock) : Running(s, u)
    BY <1>0, <1>5, <2>1, VisitAtTick
  <2>5. Shows(s, v, u)
    BY <1>0, <2>4, VisitAtTick
  <2> QED
    BY <1>1, <2>3, <2>4, <2>5
<1> QED
  BY <1>4, <1>5 DEF all

HereAt(u) == {v \in Visits : Present(RowsOf(v), u)}
Holding(slices, u) == {s \in slices : Running(s, u)}

\* The slice on top is one of the visit that started last.
LEMMA TopIsLeading ==
    ASSUME UsageInv, NEW u \in Int, NEW since \in Int, since <= u, HereAt(u) # {}
    PROVE  Top(Holding(AllSlices(since, clock), u)).view
               = ViewAt(RowsOf(Leading(HereAt(u), u)), u)
<1> DEFINE here == HereAt(u)
           active == Holding(AllSlices(since, clock), u)
           l == Leading(here, u)
           Ids == {OpenedBy(v, u).id : v \in here}
<1>1. /\ events \in Int /\ Len(table) \in Nat /\ \A p \in 1 .. Len(table) : table[p] \in StoredRows
      /\ \A p \in 1 .. Len(table) : table[p].id = events - Len(table) + p
      /\ \A p, q \in 1 .. Len(table) : p <= q => table[p].ts <= table[q].ts
  BY DEF UsageInv, UsageTypes, IdsInv, AgesInv
<1>2. ASSUME NEW v \in here
      PROVE  v \in Visits /\ \E p \in 1 .. Len(table) : OpenedBy(v, u) = table[p] /\ table[p].visit = v
  BY PresentFacts DEF HereAt
<1>3. l \in here /\ \A w \in here : OpenedBy(w, u).id <= OpenedBy(l, u).id
  <2>1. l = CHOOSE v \in here : \A w \in here : OpenedBy(w, u).id <= OpenedBy(v, u).id
    BY DEF Leading, OpenedBy
  <2> HIDE DEF here, l
  <2>2. here # {}
    BY DEF here
  <2>3. Ids \subseteq Int /\ Ids # {} /\ \A x \in Ids : x <= events
    <3>1. ASSUME NEW v \in here
          PROVE  OpenedBy(v, u).id \in Int /\ OpenedBy(v, u).id <= events
      <4>1. PICK p \in 1 .. Len(table) : OpenedBy(v, u) = table[p]
        BY <1>2
      <4> QED
        BY <1>1, <4>1
    <3> QED
      BY <2>2, <3>1
  <2>4. Max(Ids) \in Ids /\ \A y \in Ids : y <= Max(Ids)
    <3> HIDE DEF Ids
    <3> QED
      BY <1>1, <2>3, MaxIs
  <2>5. PICK v \in here : Max(Ids) = OpenedBy(v, u).id
    BY <2>4
  <2>6. \A w \in here : OpenedBy(w, u).id <= OpenedBy(v, u).id
    BY <2>4, <2>5
  <2> QED
    BY <2>1, <2>6
<1> HIDE DEF here, l
<1>4. PICK t \in AllSlices(since, clock) : Running(t, u) /\ Shows(t, l, u)
  <2>1. l \in Visits /\ Present(RowsOf(l), u)
    BY <1>3 DEF here, HereAt
  <2> QED
    BY <2>1, AllAtTick
<1>5. t \in active
  BY <1>4 DEF Holding
<1>6. ASSUME NEW q \in active
      PROVE  \E v \in here : Shows(q, v, u)
  <2>1. q \in AllSlices(since, clock) /\ Running(q, u)
    BY DEF Holding
  <2>2. PICK v \in Visits : Shows(q, v, u)
    BY <2>1, AllAtTick
  <2> QED
    BY <2>2 DEF Shows, here, HereAt
<1> HIDE DEF active
\* Rows of the table, compared by their ids.
<1>7. ASSUME NEW v \in here, NEW w \in here, OpenedBy(v, u).id <= OpenedBy(w, u).id
      PROVE  /\ OpenedBy(v, u).ts <= OpenedBy(w, u).ts
             /\ OpenedBy(v, u).id = OpenedBy(w, u).id => v = w
  <2>1. PICK p \in 1 .. Len(table) : OpenedBy(v, u) = table[p] /\ table[p].visit = v
    BY <1>2
  <2>2. PICK q \in 1 .. Len(table) : OpenedBy(w, u) = table[q] /\ table[q].visit = w
    BY <1>2
  <2>3. table[p].id = events - Len(table) + p /\ table[q].id = events - Len(table) + q
    BY <1>1
  <2>4. p <= q /\ (table[p].id = table[q].id => p = q)
    BY <1>1, <1>7, <2>1, <2>2, <2>3
  <2> QED
    BY <1>1, <2>1, <2>2, <2>4
<1>8. \A v \in here : OpenedBy(v, u).id \in Int /\ OpenedBy(v, u).ts \in Int
  <2> SUFFICES ASSUME NEW v \in here
               PROVE  OpenedBy(v, u).id \in Int /\ OpenedBy(v, u).ts \in Int
    OBVIOUS
  <2>1. PICK p \in 1 .. Len(table) : OpenedBy(v, u) = table[p]
    BY <1>2
  <2> QED
    BY <1>1, <2>1 DEF StoredRows
<1> DEFINE First(s) == \A q \in active : q.start < s.start \/ (q.start = s.start /\ q.order <= s.order)
<1>9. First(t)
  <2> SUFFICES ASSUME NEW q \in active
               PROVE  q.start < t.start \/ (q.start = t.start /\ q.order <= t.order)
    OBVIOUS
  <2>1. PICK v \in here : Shows(q, v, u)
    BY <1>6
  <2>2. /\ q.start = OpenedBy(v, u).ts /\ q.order = OpenedBy(v, u).id
        /\ t.start = OpenedBy(l, u).ts /\ t.order = OpenedBy(l, u).id
    BY <1>4, <2>1 DEF Shows
  <2>3. q.order <= t.order /\ q.start <= t.start
    BY <1>3, <1>7, <2>2
  <2>4. q.start \in Int /\ t.start \in Int
    BY <1>3, <1>8, <2>2
  <2> QED
    BY <2>3, <2>4
<1>10. Top(active) \in active /\ First(Top(active))
  <2>1. Top(active) = CHOOSE s \in active : First(s)
    BY DEF Top
  <2> HIDE DEF First
  <2> QED
    BY <1>5, <1>9, <2>1
<1> DEFINE s == Top(active)
<1> HIDE DEF s
<1>11. PICK v \in here : Shows(s, v, u)
  BY <1>6, <1>10 DEF s
<1>12. /\ s.start = OpenedBy(v, u).ts /\ s.order = OpenedBy(v, u).id /\ s.view = ViewAt(RowsOf(v), u)
       /\ t.start = OpenedBy(l, u).ts /\ t.order = OpenedBy(l, u).id
  BY <1>4, <1>11 DEF Shows
<1>13. s.order <= t.order /\ s.start <= t.start
  BY <1>3, <1>7, <1>11, <1>12
<1>14. t.start < s.start \/ (t.start = s.start /\ t.order <= s.order)
  BY <1>5, <1>10 DEF s
<1>15. s.order \in Int /\ t.order \in Int /\ s.start \in Int /\ t.start \in Int
  BY <1>3, <1>8, <1>12
<1>16. s.order = t.order
  BY <1>13, <1>14, <1>15
<1>17. v = l
  BY <1>3, <1>7, <1>12, <1>13, <1>16
<1> QED
  BY <1>12, <1>17 DEF s, active, here, l

-----------------------------------------------------------------------------
(* The report of the usage log: the pieces *)

\* Within a piece nothing changes: not the slices, not the day; and every tick
\* that a slice holds is in a piece.
PieceFits(p, slices, since, until) ==
    /\ p.lo \in Int /\ p.hi \in Int /\ since <= p.lo /\ p.lo < p.hi /\ p.hi <= until
    /\ p.active # {}
    /\ \A u \in p.lo .. p.hi - 1 :
           p.active = Holding(slices, u) /\ p.lo \div DayTicks = u \div DayTicks
LEMMA PiecesFit ==
    ASSUME NEW since \in Int, NEW until \in Int, since < until,
           NEW slices, \A s \in slices : InWindow(s, since, until)
    PROVE  LET pieces == Pieces(slices, since, until)
           IN  /\ IsFiniteSet(pieces) /\ Apart(pieces, since, until)
               /\ \A p \in pieces : PieceFits(p, slices, since, until)
               /\ \A u \in since .. until - 1 :
                      Holding(slices, u) # {} => \E p \in pieces : Covers(p, u)
<1> DEFINE edges == {s.from : s \in slices} \cup {s.to : s \in slices} \cup {since, until}
                    \cup {d \in since .. until : d % DayTicks = 0}
           After(e) == {f \in edges : f > e}
           Next(e)  == Min(After(e))
           Piece(e) == [lo |-> e, hi |-> Next(e), active |-> Holding(slices, e)]
           Los      == {e \in edges : e # Max(edges) /\ Holding(slices, e) # {}}
           pieces   == {Piece(e) : e \in Los}
<1>0. DayTicks \in Nat \ {0}
  BY UsageAssumption
<1>1. Pieces(slices, since, until) = pieces
  BY DEF Pieces, Holding, Running
<1>2. edges \subseteq since .. until /\ since \in edges /\ until \in edges
  BY DEF InWindow
<1>3. \A s \in slices : s.from \in edges /\ s.to \in edges
  OBVIOUS
<1>4. \A d \in since .. until : d % DayTicks = 0 => d \in edges
  OBVIOUS
<1> HIDE DEF edges
<1>5. \A e \in edges : e \in Int /\ since <= e /\ e <= until
  BY <1>2
<1>6. Max(edges) = until
  <2>1. edges \subseteq Int /\ edges # {} /\ \A e \in edges : e <= until
    BY <1>2, <1>5
  <2>2. Max(edges) \in edges /\ \A e \in edges : e <= Max(edges)
    BY <2>1, MaxIs
  <2>3. Max(edges) \in Int /\ Max(edges) <= until
    BY <1>5, <2>2
  <2>4. until <= Max(edges)
    BY <1>2, <2>2
  <2> QED
    BY <2>3, <2>4
<1>7. ASSUME NEW e \in edges, e # until
      PROVE  Next(e) \in edges /\ e < Next(e) /\ \A f \in edges : f > e => Next(e) <= f
  <2>1. until \in After(e)
    BY <1>2, <1>5, <1>7
  <2>2. After(e) \subseteq Int /\ After(e) # {} /\ \A f \in After(e) : since <= f
    BY <1>5, <2>1
  <2> HIDE DEF After
  <2>3. Next(e) \in After(e) /\ \A f \in After(e) : Next(e) <= f
    BY <2>2, MinIs
  <2> HIDE DEF Next
  <2> QED
    BY <1>5, <2>3 DEF After
<1> HIDE DEF Next
\* Between two neighbouring edges nothing changes.
<1>8. ASSUME NEW e \in edges, e # until, NEW u \in e .. Next(e) - 1
      PROVE  Holding(slices, e) = Holding(slices, u) /\ e \div DayTicks = u \div DayTicks
  <2>1. /\ Next(e) \in edges /\ Next(e) \in Int /\ e \in Int /\ u \in Int
        /\ e <= u /\ u < Next(e) /\ Next(e) <= until /\ since <= e
        /\ \A f \in edges : f > e => Next(e) <= f
    BY <1>5, <1>7, <1>8
  <2>2. ASSUME NEW s \in slices
        PROVE  Running(s, e) <=> Running(s, u)
    <3>1. s.from \in edges /\ s.to \in edges /\ s.from \in Int /\ s.to \in Int
      BY <1>3, <1>5
    <3>2. (s.from > e => Next(e) <= s.from) /\ (s.to > e => Next(e) <= s.to)
      BY <2>1, <3>1
    <3> QED
      BY <2>1, <3>1, <3>2 DEF Running
  <2>3. e \div DayTicks = u \div DayTicks
    <3> SUFFICES ASSUME e \div DayTicks # u \div DayTicks
                 PROVE  FALSE
      OBVIOUS
    <3>1. PICK d \in e + 1 .. u : d % DayTicks = 0
      BY <1>0, <2>1, MidnightBetween
    <3>2. d \in since .. until /\ d > e /\ ~(Next(e) <= d)
      BY <2>1
    <3>3. d \in edges
      BY <1>4, <3>1, <3>2
    <3> QED
      BY <2>1, <3>2, <3>3
  <2> QED
    BY <2>2, <2>3 DEF Holding
<1>9. \A e \in Los : e \in edges /\ e # until /\ e \in Int
  BY <1>5, <1>6
<1>10. IsFiniteSet(pieces)
  <2> DEFINE f == [e \in Los |-> Piece(e)]
  <2>1. IsFiniteSet(Los)
    <3>1. Los \in SUBSET (since .. until)
      BY <1>2
    <3> HIDE DEF Los
    <3> QED
      BY <3>1, FS_Interval, FS_Subset
  <2>2. f \in Surjection(Los, pieces)
    <3> HIDE DEF Los, Piece
    <3>1. f \in [Los -> pieces] /\ \A p \in pieces : \E e \in Los : f[e] = p
      OBVIOUS
    <3> HIDE DEF f, pieces
    <3> QED
      BY <3>1 DEF Surjection
  <2> HIDE DEF Los, f, pieces
  <2> QED
    BY <2>1, <2>2, FS_Surjection
<1>11. ASSUME NEW p \in pieces
       PROVE  \E e \in Los : p.lo = e /\ p.hi = Next(e) /\ p.active = Holding(slices, e)
  <2> HIDE DEF Los
  <2> QED
    OBVIOUS
<1>12. ASSUME NEW p \in pieces
       PROVE  PieceFits(p, slices, since, until)
  <2>1. PICK e \in Los : p.lo = e /\ p.hi = Next(e) /\ p.active = Holding(slices, e)
    BY <1>11
  <2>2. e \in edges /\ e # until /\ e \in Int /\ Holding(slices, e) # {}
    BY <1>9
  <2> HIDE DEF Los, pieces
  <2>3. since <= e /\ e < Next(e) /\ Next(e) <= until /\ Next(e) \in Int
    BY <1>5, <1>7, <2>2
  <2>4. \A u \in e .. Next(e) - 1 :
            Holding(slices, e) = Holding(slices, u) /\ e \div DayTicks = u \div DayTicks
    BY <1>8, <2>2
  <2> QED
    BY <2>1, <2>2, <2>3, <2>4 DEF PieceFits
<1>13. ASSUME NEW p \in pieces, NEW q \in pieces, p # q
       PROVE  p.hi <= q.lo \/ q.hi <= p.lo
  <2>1. PICK e \in Los : p = Piece(e)
    BY <1>13
  <2>2. PICK f \in Los : q = Piece(f)
    BY <1>13
  <2>3. e # f
    BY <1>13, <2>1, <2>2
  <2>4. e \in edges /\ e # until /\ f \in edges /\ f # until /\ e \in Int /\ f \in Int
    BY <1>9
  <2>5. p.lo = e /\ p.hi = Next(e) /\ q.lo = f /\ q.hi = Next(f)
    BY <2>1, <2>2
  <2> HIDE DEF Los, pieces, Piece
  <2>6. CASE e < f
    BY <1>7, <2>4, <2>5, <2>6
  <2>7. CASE f < e
    BY <1>7, <2>4, <2>5, <2>7
  <2> QED
    BY <2>3, <2>4, <2>6, <2>7
<1>14. Apart(pieces, since, until)
  <2>1. \A p \in pieces : p.lo \in Int /\ p.hi \in Int /\ since <= p.lo /\ p.lo < p.hi /\ p.hi <= until
    BY <1>12 DEF PieceFits
  <2> HIDE DEF pieces
  <2>2. \A p \in pieces : p.lo <= p.hi
    BY <2>1
  <2> QED
    BY <1>13, <2>1, <2>2 DEF Apart
<1>15. ASSUME NEW u \in since .. until - 1, Holding(slices, u) # {}
       PROVE  \E p \in pieces : Covers(p, u)
  <2> DEFINE Before == {e \in edges : e <= u}
             e == Max(Before)
  <2>1. u \in Int /\ since <= u /\ u < until
    OBVIOUS
  <2>2. Before \subseteq Int /\ Before # {} /\ \A x \in Before : x <= u
    BY <1>2, <1>5, <2>1
  <2>3. e \in Before /\ \A x \in Before : x <= e
    <3> HIDE DEF Before
    <3> QED
      BY <2>1, <2>2, MaxIs
  <2> HIDE DEF e
  <2>4. e \in edges /\ e <= u /\ e \in Int /\ e # until
    BY <1>5, <2>1, <2>3
  <2>5. Next(e) \in edges /\ e < Next(e) /\ Next(e) \in Int
    BY <1>5, <1>7, <2>4
  <2>6. u < Next(e)
    <3> SUFFICES ASSUME Next(e) <= u
                 PROVE  FALSE
      BY <2>1, <2>5
    <3>1. Next(e) \in Before
      BY <2>5
    <3> QED
      BY <2>3, <2>4, <2>5, <3>1
  <2>7. u \in e .. Next(e) - 1
    BY <2>1, <2>4, <2>5, <2>6
  <2>8. Holding(slices, e) # {}
    BY <1>8, <1>15, <2>4, <2>7
  <2>9. e \in Los
    BY <1>6, <2>4, <2>8
  <2>10. Piece(e) \in pieces
    <3> HIDE DEF Los, Piece
    <3> QED
      BY <2>9
  <2>11. Covers(Piece(e), u)
    BY <2>4, <2>6 DEF Covers
  <2> HIDE DEF Piece, pieces
  <2> QED
    BY <2>10, <2>11
<1> HIDE DEF pieces
<1> QED
  BY <1>1, <1>10, <1>12, <1>14, <1>15

\* The time of a choice of the pieces is the number of the ticks it stands for.
LEMMA TimeOfChoice ==
    ASSUME NEW since \in Int, NEW until \in Int, NEW pieces, IsFiniteSet(pieces),
           Apart(pieces, since, until), NEW Q \in SUBSET pieces, NEW U \in SUBSET (since .. until - 1),
           \A u \in since .. until - 1 : u \in U <=> \E p \in Q : Covers(p, u)
    PROVE  TimeOf(Q) = Cardinality(U)
<1>1. IsFiniteSet(Q)
  BY FS_Subset
<1>2. Apart(Q, since, until)
  BY DEF Apart
<1>3. TimeOf(Q) = Cardinality(TicksOf(Q, since .. until))
  BY <1>1, <1>2, TimeIsTicks
<1>4. \A u \in since .. until : (\E p \in Q : Covers(p, u)) => u \in since .. until - 1
  <2> SUFFICES ASSUME NEW u \in since .. until, NEW p \in Q, Covers(p, u)
               PROVE  u \in since .. until - 1
    OBVIOUS
  <2>1. p.hi \in Int /\ p.hi <= until
    BY DEF Apart
  <2> QED
    BY <2>1 DEF Covers
<1>5. TicksOf(Q, since .. until) = U
  <2>1. since .. until - 1 \subseteq since .. until
    OBVIOUS
  <2> QED
    BY <1>4, <2>1 DEF TicksOf
<1> QED
  BY <1>3, <1>5

-----------------------------------------------------------------------------
(* The report of the usage log: the theorem *)

\* Report and rules agree on any window up to now.
LEMMA ReportIsRules ==
    ASSUME UsageInv, NEW since \in Int, since < clock
    PROVE  Report(since, clock) = Rules(since, clock)
<1> DEFINE until  == clock
           slices == AllSlices(since, until)
           pieces == Pieces(slices, since, until)
           W      == since .. until - 1
           On(d)  == {p \in pieces : p.lo \div DayTicks = d}
           Here(u) == {v \in Visits : Present(RowsOf(v), u)}
           At(d)  == {u \in W : u \div DayTicks = d /\ Here(u) # {}}
           days   == since \div DayTicks .. (until - 1) \div DayTicks
           OnDevice(d, c) == {p \in On(d) : \E s \in p.active : s.device = c}
           OnView(d, w)   == {p \in On(d) : Top(p.active).view = w}
           AtDevice(d, c) == {u \in At(d) : \E v \in Here(u) : DeviceOf[v] = c}
           AtView(d, w)   == {u \in At(d) : ViewAt(RowsOf(Leading(Here(u), u)), u) = w}
<1>0. until \in Int
  BY DEF UsageInv, UsageTypes
<1>1. \A u \in W : u \in Int /\ since <= u /\ u < until
  BY <1>0
<1>2. \A s \in slices : InWindow(s, since, until)
  <2>1. since \in Int
    OBVIOUS
  <2> QED
    BY <2>1, AllAtTick
<1>3. \A u : Here(u) = HereAt(u)
  BY DEF HereAt
<1>4. ASSUME NEW u \in W
      PROVE  /\ Holding(slices, u) # {} <=> Here(u) # {}
             /\ \A c : (\E s \in Holding(slices, u) : s.device = c) <=> \E v \in Here(u) : DeviceOf[v] = c
             /\ Here(u) # {} => Top(Holding(slices, u)).view = ViewAt(RowsOf(Leading(Here(u), u)), u)
  <2>1. u \in Int /\ since <= u
    BY <1>1
  <2>2. ASSUME NEW s \in Holding(slices, u)
        PROVE  \E v \in Here(u) : s.device = DeviceOf[v]
    <3>1. PICK v \in Visits : Shows(s, v, u)
      BY <2>1, AllAtTick DEF Holding
    <3> QED
      BY <3>1 DEF Shows
  <2>3. ASSUME NEW v \in Here(u)
        PROVE  \E s \in Holding(slices, u) : s.device = DeviceOf[v]
    <3>1. PICK s \in slices : Running(s, u) /\ Shows(s, v, u)
      BY <2>1, AllAtTick
    <3> QED
      BY <3>1 DEF Shows, Holding
  <2>4. Here(u) # {} => Top(Holding(slices, u)).view = ViewAt(RowsOf(Leading(Here(u), u)), u)
    BY <1>3, <2>1, TopIsLeading
  <2> HIDE DEF slices, Here
  <2> QED
    BY <2>2, <2>3, <2>4
<1> HIDE DEF slices, Here
<1>5. /\ IsFiniteSet(pieces) /\ Apart(pieces, since, until)
      /\ \A p \in pieces : PieceFits(p, slices, since, until)
      /\ \A u \in W : Holding(slices, u) # {} => \E p \in pieces : Covers(p, u)
  BY <1>0, <1>2, PiecesFit
<1> HIDE DEF pieces
<1>6. ASSUME NEW p \in pieces, NEW u \in W, Covers(p, u)
      PROVE  /\ p.active = Holding(slices, u) /\ p.lo \div DayTicks = u \div DayTicks
             /\ Here(u) # {}
  <2>1. PieceFits(p, slices, since, until)
    BY <1>5
  <2>2. u \in p.lo .. p.hi - 1
    BY <1>1, <1>6, <2>1 DEF PieceFits, Covers
  <2>3. p.active # {} /\ p.active = Holding(slices, u) /\ p.lo \div DayTicks = u \div DayTicks
    BY <2>1, <2>2 DEF PieceFits
  <2> QED
    BY <1>4, <2>3
<1>7. ASSUME NEW u \in W, Here(u) # {}
      PROVE  \E p \in pieces : Covers(p, u)
  BY <1>4, <1>5, <1>7
<1>8. ASSUME NEW Q \in SUBSET pieces, NEW U \in SUBSET W, \A u \in W : u \in U <=> \E p \in Q : Covers(p, u)
      PROVE  TimeOf(Q) = Cardinality(U)
  BY <1>0, <1>5, <1>8, TimeOfChoice
<1>9. ASSUME NEW d
      PROVE  TimeOf(On(d)) = Cardinality(At(d))
  <2>1. On(d) \in SUBSET pieces /\ At(d) \in SUBSET W
    OBVIOUS
  <2>2. ASSUME NEW u \in W
        PROVE  u \in At(d) <=> \E p \in On(d) : Covers(p, u)
    BY <1>6, <1>7
  <2> HIDE DEF On, At, W
  <2> QED
    BY <1>8, <2>1, <2>2
<1>10. ASSUME NEW d, NEW c
       PROVE  TimeOf(OnDevice(d, c)) = Cardinality(AtDevice(d, c))
  <2>1. OnDevice(d, c) \in SUBSET pieces /\ AtDevice(d, c) \in SUBSET W
    OBVIOUS
  <2>2. ASSUME NEW u \in W
        PROVE  u \in AtDevice(d, c) <=> \E p \in OnDevice(d, c) : Covers(p, u)
    <3>1. ASSUME u \in AtDevice(d, c)
          PROVE  \E p \in OnDevice(d, c) : Covers(p, u)
      <4>1. u \div DayTicks = d /\ Here(u) # {} /\ \E v \in Here(u) : DeviceOf[v] = c
        BY <3>1
      <4>2. PICK p \in pieces : Covers(p, u)
        BY <1>7, <4>1
      <4>3. p.lo \div DayTicks = d /\ \E s \in p.active : s.device = c
        BY <1>4, <1>6, <4>1, <4>2
      <4> QED
        BY <4>2, <4>3
    <3>2. ASSUME NEW p \in OnDevice(d, c), Covers(p, u)
          PROVE  u \in AtDevice(d, c)
      <4>1. p \in pieces /\ p.lo \div DayTicks = d /\ \E s \in p.active : s.device = c
        OBVIOUS
      <4>2. u \div DayTicks = d /\ Here(u) # {} /\ \E v \in Here(u) : DeviceOf[v] = c
        BY <1>4, <1>6, <3>2, <4>1
      <4> QED
        BY <4>2
    <3> QED
      BY <3>1, <3>2
  <2> HIDE DEF OnDevice, AtDevice, W
  <2> QED
    BY <1>8, <2>1, <2>2
<1>11. ASSUME NEW d, NEW w
       PROVE  TimeOf(OnView(d, w)) = Cardinality(AtView(d, w))
  <2>1. OnView(d, w) \in SUBSET pieces /\ AtView(d, w) \in SUBSET W
    OBVIOUS
  <2>2. ASSUME NEW u \in W
        PROVE  u \in AtView(d, w) <=> \E p \in OnView(d, w) : Covers(p, u)
    <3>1. ASSUME u \in AtView(d, w)
          PROVE  \E p \in OnView(d, w) : Covers(p, u)
      <4>1. u \div DayTicks = d /\ Here(u) # {} /\ ViewAt(RowsOf(Leading(Here(u), u)), u) = w
        BY <3>1
      <4>2. PICK p \in pieces : Covers(p, u)
        BY <1>7, <4>1
      <4>3. p.lo \div DayTicks = d /\ Top(p.active).view = w
        BY <1>4, <1>6, <4>1, <4>2
      <4> QED
        BY <4>2, <4>3
    <3>2. ASSUME NEW p \in OnView(d, w), Covers(p, u)
          PROVE  u \in AtView(d, w)
      <4>1. p \in pieces /\ p.lo \div DayTicks = d /\ Top(p.active).view = w
        OBVIOUS
      <4>2. u \div DayTicks = d /\ Here(u) # {} /\ ViewAt(RowsOf(Leading(Here(u), u)), u) = w
        BY <1>4, <1>6, <3>2, <4>1
      <4> QED
        BY <4>2
    <3> QED
      BY <3>1, <3>2
  <2> HIDE DEF OnView, AtView, W
  <2> QED
    BY <1>8, <2>1, <2>2
<1> DEFINE classes == {DeviceOf[v] : v \in Visits}
           views   == Views \cup {NoView}
<1>12. Report(since, clock) =
           [total  |-> [d \in days |-> TimeOf(On(d))],
            device |-> [d \in days |-> [c \in classes |-> TimeOf(OnDevice(d, c))]],
            view   |-> [d \in days |-> [w \in views |-> TimeOf(OnView(d, w))]]]
  BY DEF Report, pieces, slices
<1>13. Rules(since, clock) =
           [total  |-> [d \in days |-> Cardinality(At(d))],
            device |-> [d \in days |-> [c \in classes |-> Cardinality(AtDevice(d, c))]],
            view   |-> [d \in days |-> [w \in views |-> Cardinality(AtView(d, w))]]]
  BY DEF Rules, Here
<1> HIDE DEF On, At, OnDevice, AtDevice, OnView, AtView, days, classes, views
<1> QED
  BY <1>9, <1>10, <1>11, <1>12, <1>13

\* The report of any window up to now is what the seven rules give tick by tick.
THEOREM ReportAlwaysFollowsRules == UsageSpec => []ReportFollowsRules
<1>1. UsageInv => ReportFollowsRules
  <2> SUFFICES ASSUME UsageInv, NEW since \in {0, DayTicks - 1, DayTicks}, since < clock
               PROVE  Report(since, clock) = Rules(since, clock)
    BY DEF ReportFollowsRules
  <2>1. since \in Int
    BY UsageAssumption
  <2> QED
    BY <2>1, ReportIsRules
<1> QED
  BY <1>1, UsageInvariant, PTL

-----------------------------------------------------------------------------
(* The think-tag filter: texts and their parts *)

\* The least of a set of positions.
LEMMA EarliestFacts ==
    ASSUME NEW S, S \subseteq Nat, S # {}
    PROVE  Earliest(S) \in S /\ \A j \in S : Earliest(S) <= j
<1>1. \E i \in S : \A j \in S : i <= j
  BY LeastNumber
<1> QED
  BY <1>1 DEF Earliest

\* A position is the least if it is in the set and below all others.
LEMMA EarliestIs ==
    ASSUME NEW S, S \subseteq Nat, NEW i \in S, \A j \in S : i <= j
    PROVE  Earliest(S) = i
<1>1. Earliest(S) \in S /\ Earliest(S) <= i
  BY EarliestFacts
<1>2. i <= Earliest(S) /\ i \in Nat /\ Earliest(S) \in Nat
  BY <1>1
<1> HIDE DEF Earliest
<1> QED
  BY <1>1, <1>2

\* The characters of the rest of a text, from position i on.
LEMMA TextFromFacts ==
    ASSUME NEW s \in Texts, NEW i \in 1 .. Len(s) + 1
    PROVE  /\ TextFrom(s, i) \in Texts
           /\ Len(TextFrom(s, i)) = Len(s) - i + 1
           /\ \A k \in 1 .. Len(s) - i + 1 : TextFrom(s, i)[k] = s[i + k - 1]
<1>1. Len(s) \in Nat
  BY DEF Texts
<1>2. TextFrom(s, i) \in Texts
  BY DEF Texts, TextFrom
<1>3. Len(TextFrom(s, i)) = Len(s) - i + 1
  BY <1>1 DEF Texts, TextFrom
<1>4. ASSUME NEW k \in 1 .. Len(s) - i + 1
      PROVE  TextFrom(s, i)[k] = s[i + k - 1]
  BY <1>1 DEF Texts, TextFrom
<1> QED
  BY <1>2, <1>3, <1>4

\* The characters of the beginning of a text.
LEMMA TextToFacts ==
    ASSUME NEW s \in Texts, NEW i \in 0 .. Len(s)
    PROVE  /\ TextTo(s, i) \in Texts
           /\ Len(TextTo(s, i)) = i
           /\ \A k \in 1 .. i : TextTo(s, i)[k] = s[k]
<1>1. Len(s) \in Nat
  BY DEF Texts
<1>2. TextTo(s, i) \in Texts
  BY DEF Texts, TextTo
<1>3. Len(TextTo(s, i)) = i
  BY <1>1 DEF Texts, TextTo
<1>4. ASSUME NEW k \in 1 .. i
      PROVE  TextTo(s, i)[k] = s[k]
  BY <1>1 DEF Texts, TextTo
<1> QED
  BY <1>2, <1>3, <1>4

\* The characters of two texts that are joined.
LEMMA JoinFacts ==
    ASSUME NEW s \in Texts, NEW t \in Texts
    PROVE  /\ s \o t \in Texts /\ Len(s \o t) = Len(s) + Len(t)
           /\ \A k \in 1 .. Len(s) : (s \o t)[k] = s[k]
           /\ \A k \in 1 .. Len(t) : (s \o t)[Len(s) + k] = t[k]
  BY Appended DEF Texts

\* Two texts of one length with the same characters are the same.
LEMMA SameText ==
    ASSUME NEW s \in Texts, NEW t \in Texts, Len(s) = Len(t),
           \A k \in 1 .. Len(s) : s[k] = t[k]
    PROVE  s = t
  BY DEF Texts

\* Texts may be joined in any grouping.
LEMMA JoinAssociates ==
    ASSUME NEW s \in Texts, NEW t \in Texts, NEW u \in Texts
    PROVE  (s \o t) \o u = s \o (t \o u)
  BY DEF Texts

\* Nothing is added by the empty text.
LEMMA JoinEmpty ==
    ASSUME NEW s \in Texts
    PROVE  s \o <<>> = s /\ <<>> \o s = s /\ <<>> \in Texts /\ Len(<<>>) = 0
  BY DEF Texts

\* A rest of a rest is a rest.
LEMMA RestOfRest ==
    ASSUME NEW s \in Texts, NEW d \in 0 .. Len(s), NEW e \in 0 .. Len(s) - d
    PROVE  TextFrom(TextFrom(s, d + 1), e + 1) = TextFrom(s, d + e + 1)
<1>1. Len(s) \in Nat
  BY DEF Texts
<1> DEFINE r == TextFrom(s, d + 1)
           one == TextFrom(r, e + 1)
           two == TextFrom(s, d + e + 1)
<1>2. d + 1 \in 1 .. Len(s) + 1 /\ Len(s) - (d + 1) + 1 = Len(s) - d
  BY <1>1
<1>3. /\ r \in Texts /\ Len(r) = Len(s) - d
      /\ \A k \in 1 .. Len(s) - d : r[k] = s[d + 1 + k - 1]
  BY <1>2, TextFromFacts
<1> HIDE DEF r
<1>4. e + 1 \in 1 .. Len(r) + 1 /\ Len(r) - (e + 1) + 1 = Len(s) - d - e
  BY <1>1, <1>3
<1>5. /\ one \in Texts /\ Len(one) = Len(s) - d - e
      /\ \A k \in 1 .. Len(s) - d - e : one[k] = r[e + 1 + k - 1]
  BY <1>3, <1>4, TextFromFacts
<1>6. d + e + 1 \in 1 .. Len(s) + 1 /\ Len(s) - (d + e + 1) + 1 = Len(s) - d - e
  BY <1>1
<1>7. /\ two \in Texts /\ Len(two) = Len(s) - d - e
      /\ \A k \in 1 .. Len(s) - d - e : two[k] = s[d + e + 1 + k - 1]
  BY <1>6, TextFromFacts
<1> HIDE DEF one, two
<1>8. ASSUME NEW k \in 1 .. Len(one)
      PROVE  one[k] = two[k]
  <2>1. k \in 1 .. Len(s) - d - e /\ e + 1 + k - 1 \in 1 .. Len(s) - d
    BY <1>1, <1>5
  <2>2. d + 1 + (e + 1 + k - 1) - 1 = d + e + 1 + k - 1
    BY <1>1
  <2> QED
    BY <1>3, <1>5, <1>7, <2>1, <2>2
<1>9. one = two
  BY <1>5, <1>7, <1>8, SameText
<1> QED
  BY <1>9 DEF one, two, r

\* The rest of a text that goes on.
LEMMA RestOfJoin ==
    ASSUME NEW s \in Texts, NEW t \in Texts, NEW d \in 0 .. Len(s)
    PROVE  TextFrom(s \o t, d + 1) = TextFrom(s, d + 1) \o t
<1>1. Len(s) \in Nat /\ Len(t) \in Nat
  BY DEF Texts
<1> DEFINE j == s \o t
           one == TextFrom(j, d + 1)
           r == TextFrom(s, d + 1)
           two == r \o t
<1>2. /\ j \in Texts /\ Len(j) = Len(s) + Len(t)
      /\ \A k \in 1 .. Len(s) : j[k] = s[k]
      /\ \A k \in 1 .. Len(t) : j[Len(s) + k] = t[k]
  BY JoinFacts
<1> HIDE DEF j
<1>3. /\ d + 1 \in 1 .. Len(j) + 1 /\ Len(j) - (d + 1) + 1 = Len(s) + Len(t) - d
      /\ d + 1 \in 1 .. Len(s) + 1 /\ Len(s) - (d + 1) + 1 = Len(s) - d
  BY <1>1, <1>2
<1>4. /\ one \in Texts /\ Len(one) = Len(s) + Len(t) - d
      /\ \A k \in 1 .. Len(s) + Len(t) - d : one[k] = j[d + 1 + k - 1]
  BY <1>2, <1>3, TextFromFacts
<1>5. /\ r \in Texts /\ Len(r) = Len(s) - d
      /\ \A k \in 1 .. Len(s) - d : r[k] = s[d + 1 + k - 1]
  BY <1>3, TextFromFacts
<1> HIDE DEF one, r
<1>6. /\ two \in Texts /\ Len(two) = Len(r) + Len(t)
      /\ \A k \in 1 .. Len(r) : two[k] = r[k]
      /\ \A k \in 1 .. Len(t) : two[Len(r) + k] = t[k]
  BY <1>5, JoinFacts
<1> HIDE DEF two
<1>7. ASSUME NEW k \in 1 .. Len(one)
      PROVE  one[k] = two[k]
  <2>0. k \in 1 .. Len(s) + Len(t) - d
    BY <1>4
  <2>1. CASE k <= Len(s) - d
    <3>1. k \in 1 .. Len(s) - d /\ d + 1 + k - 1 \in 1 .. Len(s)
      BY <1>1, <2>0, <2>1
    <3> QED
      BY <1>2, <1>4, <1>5, <1>6, <2>0, <3>1
  <2>2. CASE ~(k <= Len(s) - d)
    <3> DEFINE l == k - (Len(s) - d)
    <3>1. l \in 1 .. Len(t) /\ d + 1 + k - 1 = Len(s) + l /\ Len(r) + l = k
      BY <1>1, <1>5, <2>0, <2>2
    <3> HIDE DEF l
    <3>2. one[k] = t[l]
      BY <1>2, <1>4, <2>0, <3>1
    <3>3. two[k] = t[l]
      BY <1>6, <3>1
    <3> QED
      BY <3>2, <3>3
  <2> QED
    BY <2>1, <2>2
<1>8. Len(one) = Len(two)
  BY <1>1, <1>4, <1>5, <1>6
<1>9. one = two
  BY <1>4, <1>6, <1>7, <1>8, SameText
<1> QED
  BY <1>9 DEF one, two, r, j

\* A beginning and the rest make the text.
LEMMA PartsJoin ==
    ASSUME NEW s \in Texts, NEW d \in 0 .. Len(s)
    PROVE  TextTo(s, d) \o TextFrom(s, d + 1) = s
<1>1. Len(s) \in Nat
  BY DEF Texts
<1> DEFINE a == TextTo(s, d)
           r == TextFrom(s, d + 1)
           j == a \o r
<1>2. a \in Texts /\ Len(a) = d /\ \A k \in 1 .. d : a[k] = s[k]
  BY TextToFacts
<1>3. d + 1 \in 1 .. Len(s) + 1 /\ Len(s) - (d + 1) + 1 = Len(s) - d
  BY <1>1
<1>4. /\ r \in Texts /\ Len(r) = Len(s) - d
      /\ \A k \in 1 .. Len(s) - d : r[k] = s[d + 1 + k - 1]
  BY <1>3, TextFromFacts
<1> HIDE DEF a, r
<1>5. /\ j \in Texts /\ Len(j) = Len(a) + Len(r)
      /\ \A k \in 1 .. Len(a) : j[k] = a[k]
      /\ \A k \in 1 .. Len(r) : j[Len(a) + k] = r[k]
  BY <1>2, <1>4, JoinFacts
<1> HIDE DEF j
<1>6. ASSUME NEW k \in 1 .. Len(s)
      PROVE  j[k] = s[k]
  <2>1. CASE k <= d
    BY <1>1, <1>2, <1>5, <2>1
  <2>2. CASE ~(k <= d)
    <3>1. k - d \in 1 .. Len(r) /\ Len(a) + (k - d) = k /\ d + 1 + (k - d) - 1 = k
      BY <1>1, <1>2, <1>4, <2>2
    <3> QED
      BY <1>4, <1>5, <3>1
  <2> QED
    BY <2>1, <2>2
<1>7. Len(j) = Len(s)
  BY <1>1, <1>2, <1>4, <1>5
<1>8. j = s
  BY <1>5, <1>6, <1>7, SameText
<1> QED
  BY <1>8 DEF j, a, r

-----------------------------------------------------------------------------
(* The think-tag filter: tags *)

\* "<" stands at the front of a prefix and nowhere else in it.
LEMMA TagFacts ==
    /\ OpenPrefix \in Texts /\ Len(OpenPrefix) = Len(Name) + 1 /\ Len(Name) \in Nat
    /\ OpenPrefix[1] = "<"
    /\ \A k \in 2 .. Len(OpenPrefix) : OpenPrefix[k] # "<"
    /\ CloseTag \in Texts /\ Len(CloseTag) = Len(Name) + 3
<1>1. Name \in Texts /\ Len(Name) \in Nat /\ <<"<">> \in Texts /\ Len(<<"<">>) = 1
  <2>1. "<" \in Chars
    BY ThinkAssumption
  <2> QED
    BY <2>1, ThinkAssumption DEF Texts
<1>2. /\ OpenPrefix \in Texts /\ Len(OpenPrefix) = 1 + Len(Name)
      /\ \A k \in 1 .. 1 : OpenPrefix[k] = <<"<">>[k]
      /\ \A k \in 1 .. Len(Name) : OpenPrefix[1 + k] = Name[k]
  <2>1. \A k \in 1 .. Len(<<"<">>) : (<<"<">> \o Name)[k] = <<"<">>[k]
    BY <1>1, JoinFacts
  <2>2. \A k \in 1 .. Len(Name) : (<<"<">> \o Name)[Len(<<"<">>) + k] = Name[k]
    BY <1>1, JoinFacts
  <2>3. <<"<">> \o Name \in Texts /\ Len(<<"<">> \o Name) = Len(<<"<">>) + Len(Name)
    BY <1>1, JoinFacts
  <2> QED
    BY <1>1, <2>1, <2>2, <2>3 DEF OpenPrefix
<1>3. ASSUME NEW k \in 2 .. Len(OpenPrefix)
      PROVE  OpenPrefix[k] # "<"
  <2>1. k - 1 \in 1 .. Len(Name) /\ 1 + (k - 1) = k
    BY <1>1, <1>2
  <2> QED
    BY <1>2, <2>1, ThinkAssumption
<1>4. CloseTag \in Texts /\ Len(CloseTag) = Len(Name) + 3
  <2>1. <<"<", "/">> \in Texts /\ Len(<<"<", "/">>) = 2 /\ <<">">> \in Texts /\ Len(<<">">>) = 1
    <3>1. "<" \in Chars /\ "/" \in Chars /\ ">" \in Chars
      BY ThinkAssumption
    <3> QED
      BY <3>1 DEF Texts
  <2>2. <<"<", "/">> \o Name \in Texts /\ Len(<<"<", "/">> \o Name) = 2 + Len(Name)
    BY <1>1, <2>1, JoinFacts
  <2>3. /\ (<<"<", "/">> \o Name) \o <<">">> \in Texts
        /\ Len((<<"<", "/">> \o Name) \o <<">">>) = 2 + Len(Name) + 1
    BY <2>1, <2>2, JoinFacts
  <2> QED
    BY <1>1, <2>3 DEF CloseTag
<1> QED
  BY <1>1, <1>2, <1>3, <1>4

\* What occurs in a text occurs there also when the text goes on, and nothing
\* else occurs that ends in it.
LEMMA OccursJoin ==
    ASSUME NEW w \in Texts, NEW s \in Texts, NEW t \in Texts, NEW i \in Nat \ {0}
    PROVE  /\ Occurs(w, s, i) => Occurs(w, s \o t, i)
           /\ Occurs(w, s \o t, i) /\ i + Len(w) - 1 <= Len(s) => Occurs(w, s, i)
<1>1. Len(s) \in Nat /\ Len(t) \in Nat /\ Len(w) \in Nat
  BY DEF Texts
<1> DEFINE j == s \o t
<1>2. Len(j) = Len(s) + Len(t) /\ \A k \in 1 .. Len(s) : j[k] = s[k]
  BY JoinFacts
<1> HIDE DEF j
<1>3. ASSUME i + Len(w) - 1 <= Len(s), NEW k \in 1 .. Len(w)
      PROVE  i + k - 1 \in 1 .. Len(s)
  BY <1>1, <1>3
<1>4. i + Len(w) - 1 <= Len(s) => i + Len(w) - 1 <= Len(j)
  BY <1>1, <1>2
<1> QED
  BY <1>2, <1>3, <1>4 DEF Occurs, j

\* What occurs in the rest of a text occurs in the text, further on.
LEMMA OccursRest ==
    ASSUME NEW w \in Texts, NEW s \in Texts, NEW d \in 0 .. Len(s), NEW i \in Nat \ {0}
    PROVE  Occurs(w, TextFrom(s, d + 1), i) <=> Occurs(w, s, d + i)
<1>1. Len(s) \in Nat /\ Len(w) \in Nat
  BY DEF Texts
<1> DEFINE r == TextFrom(s, d + 1)
<1>2. Len(r) = Len(s) - d /\ \A k \in 1 .. Len(s) - d : r[k] = s[d + k]
  <2>1. d + 1 \in 1 .. Len(s) + 1 /\ Len(s) - (d + 1) + 1 = Len(s) - d
    BY <1>1
  <2>2. Len(r) = Len(s) - d /\ \A k \in 1 .. Len(s) - d : r[k] = s[d + 1 + k - 1]
    BY <2>1, TextFromFacts
  <2>3. \A k \in 1 .. Len(s) - d : d + 1 + k - 1 = d + k
    BY <1>1
  <2> QED
    BY <2>2, <2>3
<1> HIDE DEF r
<1>3. i + Len(w) - 1 <= Len(r) <=> d + i + Len(w) - 1 <= Len(s)
  BY <1>1, <1>2
<1>4. ASSUME i + Len(w) - 1 <= Len(r), NEW k \in 1 .. Len(w)
      PROVE  r[i + k - 1] = s[d + i + k - 1]
  <2>1. i + k - 1 \in 1 .. Len(s) - d /\ d + (i + k - 1) = d + i + k - 1
    BY <1>1, <1>2, <1>4
  <2> QED
    BY <1>2, <2>1
<1> QED
  BY <1>3, <1>4 DEF Occurs, r

\* The same of the beginnings of open tags.
LEMMA BeginsJoin ==
    ASSUME NEW s \in Texts, NEW t \in Texts, NEW i \in Nat \ {0}
    PROVE  /\ Begins(s, i) => Begins(s \o t, i)
           /\ Begins(s \o t, i) /\ i + Len(OpenPrefix) <= Len(s) => Begins(s, i)
<1>1. Len(s) \in Nat /\ Len(t) \in Nat /\ Len(OpenPrefix) \in Nat
  BY TagFacts DEF Texts
<1>2. Len(s \o t) = Len(s) + Len(t) /\ \A k \in 1 .. Len(s) : (s \o t)[k] = s[k]
  BY JoinFacts
<1>3. /\ Occurs(OpenPrefix, s, i) => Occurs(OpenPrefix, s \o t, i)
      /\ Occurs(OpenPrefix, s \o t, i) /\ i + Len(OpenPrefix) - 1 <= Len(s)
            => Occurs(OpenPrefix, s, i)
  BY TagFacts, OccursJoin
<1>4. ASSUME i + Len(OpenPrefix) <= Len(s)
      PROVE  /\ i + Len(OpenPrefix) \in 1 .. Len(s) /\ i + Len(OpenPrefix) - 1 <= Len(s)
             /\ i + Len(OpenPrefix) <= Len(s) + Len(t)
  BY <1>1, <1>4
<1> QED
  BY <1>2, <1>3, <1>4 DEF Begins

\* An open tag that begins in the rest of a text begins in the text, further on.
LEMMA BeginsRest ==
    ASSUME NEW s \in Texts, NEW d \in 0 .. Len(s), NEW i \in Nat \ {0}
    PROVE  Begins(TextFrom(s, d + 1), i) <=> Begins(s, d + i)
<1>1. Len(s) \in Nat /\ Len(OpenPrefix) \in Nat
  BY TagFacts DEF Texts
<1> DEFINE r == TextFrom(s, d + 1)
           e == i + Len(OpenPrefix)
<1>2. Occurs(OpenPrefix, r, i) <=> Occurs(OpenPrefix, s, d + i)
  BY TagFacts, OccursRest
<1>3. d + 1 \in 1 .. Len(s) + 1 /\ Len(s) - (d + 1) + 1 = Len(s) - d
  BY <1>1
<1>4. Len(r) = Len(s) - d /\ \A k \in 1 .. Len(s) - d : r[k] = s[d + 1 + k - 1]
  BY <1>3, TextFromFacts
<1> HIDE DEF r
<1>5. e <= Len(r) <=> d + i + Len(OpenPrefix) <= Len(s)
  BY <1>1, <1>4
<1>6. e <= Len(r) => r[e] = s[d + i + Len(OpenPrefix)]
  <2>1. SUFFICES ASSUME e <= Len(r)
                 PROVE  r[e] = s[d + i + Len(OpenPrefix)]
    OBVIOUS
  <2>2. e \in 1 .. Len(s) - d /\ d + 1 + e - 1 = d + i + Len(OpenPrefix)
    BY <1>1, <1>4, <2>1
  <2> HIDE DEF e
  <2> QED
    BY <1>4, <2>2
<1> QED
  BY <1>2, <1>5, <1>6 DEF Begins, r

\* The same of their ends.
LEMMA TagEndsJoin ==
    ASSUME NEW s \in Texts, NEW t \in Texts, NEW i \in Nat \ {0}
    PROVE  /\ TagEnds(s, i) \subseteq TagEnds(s \o t, i)
           /\ \A j \in TagEnds(s \o t, i) : j <= Len(s) => j \in TagEnds(s, i)
<1>1. Len(s) \in Nat /\ Len(t) \in Nat /\ Len(OpenPrefix) \in Nat
  BY TagFacts DEF Texts
<1>2. Len(s \o t) = Len(s) + Len(t) /\ \A k \in 1 .. Len(s) : (s \o t)[k] = s[k]
  BY JoinFacts
<1>3. ASSUME NEW j \in i + Len(OpenPrefix) .. Len(s)
      PROVE  /\ j \in 1 .. Len(s)
             /\ j \in i + Len(OpenPrefix) .. Len(s) + Len(t)
  BY <1>1
<1>4. ASSUME NEW j \in i + Len(OpenPrefix) .. Len(s) + Len(t), j <= Len(s)
      PROVE  j \in 1 .. Len(s) /\ j \in i + Len(OpenPrefix) .. Len(s)
  BY <1>1, <1>4
<1> QED
  BY <1>2, <1>3, <1>4 DEF TagEnds

\* It ends there, too.
LEMMA TagEndsRest ==
    ASSUME NEW s \in Texts, NEW d \in 0 .. Len(s), NEW i \in Nat \ {0}, NEW j \in Nat
    PROVE  j \in TagEnds(TextFrom(s, d + 1), i) <=> d + j \in TagEnds(s, d + i)
<1>1. Len(s) \in Nat /\ Len(OpenPrefix) \in Nat
  BY TagFacts DEF Texts
<1> DEFINE r == TextFrom(s, d + 1)
<1>2. d + 1 \in 1 .. Len(s) + 1 /\ Len(s) - (d + 1) + 1 = Len(s) - d
  BY <1>1
<1>3. Len(r) = Len(s) - d /\ \A k \in 1 .. Len(s) - d : r[k] = s[d + 1 + k - 1]
  BY <1>2, TextFromFacts
<1> HIDE DEF r
<1>4. j \in i + Len(OpenPrefix) .. Len(r) <=> d + j \in d + i + Len(OpenPrefix) .. Len(s)
  BY <1>1, <1>3
<1>5. ASSUME j \in i + Len(OpenPrefix) .. Len(r)
      PROVE  r[j] = s[d + j]
  <2>1. j \in 1 .. Len(s) - d /\ d + 1 + j - 1 = d + j
    BY <1>1, <1>3, <1>5
  <2> QED
    BY <1>3, <2>1
<1> QED
  BY <1>4, <1>5 DEF TagEnds, r

\* Where open tags start in the rest of a text.
LEMMA OpensRest ==
    ASSUME NEW s \in Texts, NEW d \in 0 .. Len(s), NEW i \in Nat \ {0}
    PROVE  i \in Opens(TextFrom(s, d + 1)) <=> d + i \in Opens(s)
<1>1. Len(s) \in Nat
  BY DEF Texts
<1> DEFINE r == TextFrom(s, d + 1)
<1>2. Len(r) = Len(s) - d
  <2>1. d + 1 \in 1 .. Len(s) + 1 /\ Len(s) - (d + 1) + 1 = Len(s) - d
    BY <1>1
  <2> QED
    BY <2>1, TextFromFacts
<1>3. Begins(r, i) <=> Begins(s, d + i)
  BY BeginsRest
<1>4. TagEnds(r, i) # {} => TagEnds(s, d + i) # {}
  <2>1. SUFFICES ASSUME NEW j \in TagEnds(r, i)
                 PROVE  TagEnds(s, d + i) # {}
    OBVIOUS
  <2>2. j \in Nat
    BY TagFacts DEF TagEnds
  <2> QED
    BY <2>1, <2>2, TagEndsRest
<1>5. TagEnds(s, d + i) # {} => TagEnds(r, i) # {}
  <2>1. SUFFICES ASSUME NEW j \in TagEnds(s, d + i)
                 PROVE  TagEnds(r, i) # {}
    OBVIOUS
  <2>2. j - d \in Nat /\ d + (j - d) = j
    BY <1>1, TagFacts DEF TagEnds
  <2> QED
    BY <2>1, <2>2, TagEndsRest
<1> HIDE DEF r
<1>6. i \in 1 .. Len(r) <=> d + i \in 1 .. Len(s)
  BY <1>1, <1>2
<1> QED
  BY <1>3, <1>4, <1>5, <1>6 DEF Opens, r

\* The same of close tags.
LEMMA ClosesRest ==
    ASSUME NEW s \in Texts, NEW d \in 0 .. Len(s), NEW i \in Nat \ {0}
    PROVE  i \in Closes(TextFrom(s, d + 1)) <=> d + i \in Closes(s)
<1>1. Len(s) \in Nat
  BY DEF Texts
<1> DEFINE r == TextFrom(s, d + 1)
<1>2. Len(r) = Len(s) - d
  <2>1. d + 1 \in 1 .. Len(s) + 1 /\ Len(s) - (d + 1) + 1 = Len(s) - d
    BY <1>1
  <2> QED
    BY <2>1, TextFromFacts
<1>3. Occurs(CloseTag, r, i) <=> Occurs(CloseTag, s, d + i)
  BY TagFacts, OccursRest
<1> HIDE DEF r
<1>4. i \in 1 .. Len(r) <=> d + i \in 1 .. Len(s)
  BY <1>1, <1>2
<1> QED
  BY <1>3, <1>4 DEF Closes, r

\* The first open tag, and what stands around it.
LEMMA OpenParts ==
    ASSUME NEW s \in Texts, Opens(s) # {}
    PROVE  LET i == Earliest(Opens(s))
               e == Earliest(TagEnds(s, i))
           IN  /\ i \in Opens(s) /\ i \in 1 .. Len(s) /\ \A j \in Opens(s) : i <= j
               /\ e \in TagEnds(s, i) /\ \A j \in TagEnds(s, i) : e <= j
               /\ e \in i + 1 .. Len(s)
               /\ BeforeOpen(s) = TextTo(s, i - 1) /\ BeforeOpen(s) \in Texts
               /\ AfterOpen(s) = TextFrom(s, e + 1) /\ AfterOpen(s) \in Texts
               /\ Len(AfterOpen(s)) = Len(s) - e
<1> DEFINE i == Earliest(Opens(s))
           e == Earliest(TagEnds(s, i))
<1>1. Len(s) \in Nat /\ Len(OpenPrefix) \in Nat \ {0}
  BY TagFacts DEF Texts
<1>2. Opens(s) \subseteq Nat
  BY DEF Opens
<1>3. i \in Opens(s) /\ \A j \in Opens(s) : i <= j
  BY <1>2, EarliestFacts
<1> HIDE DEF i
<1>4. i \in 1 .. Len(s) /\ TagEnds(s, i) # {}
  BY <1>3 DEF Opens
<1>5. TagEnds(s, i) \subseteq Nat
  BY <1>1, <1>4 DEF TagEnds
<1>6. e \in TagEnds(s, i) /\ \A j \in TagEnds(s, i) : e <= j
  BY <1>4, <1>5, EarliestFacts
<1>7. e \in i + 1 .. Len(s)
  <2> HIDE DEF e
  <2>1. e \in i + Len(OpenPrefix) .. Len(s)
    BY <1>6 DEF TagEnds
  <2> QED
    BY <1>1, <1>4, <2>1
<1>8. BeforeOpen(s) = TextTo(s, i - 1)
  BY DEF BeforeOpen, i
<1>9. AfterOpen(s) = TextFrom(s, e + 1)
  BY DEF AfterOpen, i
<1> HIDE DEF e
<1>10. i - 1 \in 0 .. Len(s) /\ e + 1 \in 1 .. Len(s) + 1 /\ Len(s) - (e + 1) + 1 = Len(s) - e
  BY <1>1, <1>4, <1>7
<1>11. BeforeOpen(s) \in Texts
  BY <1>8, <1>10, TextToFacts
<1>12. AfterOpen(s) \in Texts /\ Len(AfterOpen(s)) = Len(s) - e
  BY <1>9, <1>10, TextFromFacts
<1> QED
  BY <1>3, <1>4, <1>6, <1>7, <1>8, <1>9, <1>11, <1>12 DEF e, i

\* The first close tag, and what stands behind it.
LEMMA CloseParts ==
    ASSUME NEW s \in Texts, Closes(s) # {}
    PROVE  LET i == Earliest(Closes(s))
           IN  /\ i \in Closes(s) /\ i \in 1 .. Len(s) /\ \A j \in Closes(s) : i <= j
               /\ i + Len(CloseTag) - 1 <= Len(s)
               /\ AfterClose(s) = TextFrom(s, i + Len(CloseTag)) /\ AfterClose(s) \in Texts
               /\ Len(AfterClose(s)) = Len(s) - (i + Len(CloseTag) - 1)
<1> DEFINE i == Earliest(Closes(s))
<1>1. Len(s) \in Nat /\ Len(CloseTag) \in Nat \ {0}
  BY TagFacts DEF Texts
<1>2. Closes(s) \subseteq Nat
  BY DEF Closes
<1>3. i \in Closes(s) /\ \A j \in Closes(s) : i <= j
  BY <1>2, EarliestFacts
<1>4. AfterClose(s) = TextFrom(s, i + Len(CloseTag))
  BY DEF AfterClose
<1> HIDE DEF i
<1>5. i \in 1 .. Len(s) /\ i + Len(CloseTag) - 1 <= Len(s)
  BY <1>3 DEF Closes, Occurs
<1>6. /\ i + Len(CloseTag) \in 1 .. Len(s) + 1
      /\ Len(s) - (i + Len(CloseTag)) + 1 = Len(s) - (i + Len(CloseTag) - 1)
  BY <1>1, <1>5
<1>7. AfterClose(s) \in Texts /\ Len(AfterClose(s)) = Len(s) - (i + Len(CloseTag) - 1)
  BY <1>4, <1>6, TextFromFacts
<1> QED
  BY <1>3, <1>4, <1>5, <1>7 DEF i

\* The beginning of a text stays when the text goes on.
LEMMA StartOfJoin ==
    ASSUME NEW s \in Texts, NEW t \in Texts, NEW d \in 0 .. Len(s)
    PROVE  TextTo(s \o t, d) = TextTo(s, d)
<1> DEFINE one == TextTo(s \o t, d)
           two == TextTo(s, d)
<1>1. Len(s) \in Nat /\ Len(t) \in Nat
  BY DEF Texts
<1>2. /\ s \o t \in Texts /\ Len(s \o t) = Len(s) + Len(t)
      /\ \A k \in 1 .. Len(s) : (s \o t)[k] = s[k]
  BY JoinFacts
<1>3. d \in 0 .. Len(s \o t)
  BY <1>1, <1>2
<1>4. one \in Texts /\ Len(one) = d /\ \A k \in 1 .. d : one[k] = (s \o t)[k]
  BY <1>2, <1>3, TextToFacts
<1>5. two \in Texts /\ Len(two) = d /\ \A k \in 1 .. d : two[k] = s[k]
  BY TextToFacts
<1>6. \A k \in 1 .. d : k \in 1 .. Len(s)
  BY <1>1
<1> HIDE DEF one, two
<1>7. one = two
  BY <1>2, <1>4, <1>5, <1>6, SameText
<1> QED
  BY <1>7 DEF one, two

\* A longer beginning is a shorter one and the beginning of the rest.
LEMMA StartSplits ==
    ASSUME NEW s \in Texts, NEW d \in 0 .. Len(s), NEW e \in 0 .. Len(s) - d
    PROVE  TextTo(s, d + e) = TextTo(s, d) \o TextTo(TextFrom(s, d + 1), e)
<1> DEFINE one == TextTo(s, d + e)
           a == TextTo(s, d)
           r == TextFrom(s, d + 1)
           b == TextTo(r, e)
           two == a \o b
<1>1. Len(s) \in Nat
  BY DEF Texts
<1>2. d + e \in 0 .. Len(s) /\ d + 1 \in 1 .. Len(s) + 1 /\ Len(s) - (d + 1) + 1 = Len(s) - d
  BY <1>1
<1>3. one \in Texts /\ Len(one) = d + e /\ \A k \in 1 .. d + e : one[k] = s[k]
  BY <1>2, TextToFacts
<1>4. a \in Texts /\ Len(a) = d /\ \A k \in 1 .. d : a[k] = s[k]
  BY TextToFacts
<1>5. r \in Texts /\ Len(r) = Len(s) - d /\ \A k \in 1 .. Len(s) - d : r[k] = s[d + 1 + k - 1]
  BY <1>2, TextFromFacts
<1> HIDE DEF r
<1>6. b \in Texts /\ Len(b) = e /\ \A k \in 1 .. e : b[k] = r[k]
  BY <1>5, TextToFacts
<1> HIDE DEF one, a, b
<1>7. /\ two \in Texts /\ Len(two) = Len(a) + Len(b)
      /\ \A k \in 1 .. Len(a) : two[k] = a[k]
      /\ \A k \in 1 .. Len(b) : two[Len(a) + k] = b[k]
  BY <1>4, <1>6, JoinFacts
<1> HIDE DEF two
<1>8. ASSUME NEW k \in 1 .. Len(one)
      PROVE  one[k] = two[k]
  <2>1. CASE k <= d
    BY <1>1, <1>3, <1>4, <1>7, <2>1
  <2>2. CASE ~(k <= d)
    <3>1. /\ k - d \in 1 .. e /\ d + (k - d) = k /\ d + 1 + (k - d) - 1 = k
          /\ k - d \in 1 .. Len(s) - d
      BY <1>1, <1>3, <2>2
    <3>2. two[k] = r[k - d]
      BY <1>4, <1>6, <1>7, <3>1
    <3>3. r[k - d] = s[k]
      BY <1>5, <3>1
    <3> QED
      BY <1>3, <3>2, <3>3
  <2> QED
    BY <2>1, <2>2
<1>9. one = two
  BY <1>3, <1>4, <1>6, <1>7, <1>8, SameText
<1> QED
  BY <1>9 DEF one, two, a, b, r

\* An open tag that begins before another begins and ends before it: "<" is no
\* character of the name.
LEMMA TagsApart ==
    ASSUME NEW s \in Texts, NEW i \in Nat \ {0}, NEW j \in Nat \ {0}, j < i,
           Begins(s, j), i <= Len(s), s[i] = "<"
    PROVE  j + Len(OpenPrefix) <= i
<1>1. Len(s) \in Nat /\ Len(OpenPrefix) \in Nat
  BY TagFacts DEF Texts
<1>2. SUFFICES ASSUME ~(j + Len(OpenPrefix) <= i)
               PROVE  FALSE
  OBVIOUS
<1> DEFINE k == i - j + 1
<1>3. k \in 2 .. Len(OpenPrefix) /\ k \in 1 .. Len(OpenPrefix) /\ j + k - 1 = i
  BY <1>1, <1>2
<1> HIDE DEF k
<1>4. s[i] = OpenPrefix[k]
  BY <1>3 DEF Begins, Occurs
<1> QED
  BY <1>3, <1>4, TagFacts

\* A text that goes on keeps its first open tag.
LEMMA OpenStays ==
    ASSUME NEW s \in Texts, NEW t \in Texts, Opens(s) # {}
    PROVE  /\ Opens(s \o t) # {}
           /\ BeforeOpen(s \o t) = BeforeOpen(s)
           /\ AfterOpen(s \o t) = AfterOpen(s) \o t
<1> DEFINE u == s \o t
           i == Earliest(Opens(s))
           e == Earliest(TagEnds(s, i))
<1>1. Len(s) \in Nat /\ Len(t) \in Nat /\ Len(OpenPrefix) \in Nat \ {0}
  BY TagFacts DEF Texts
<1>2. /\ i \in Opens(s) /\ i \in 1 .. Len(s) /\ \A j \in Opens(s) : i <= j
      /\ e \in TagEnds(s, i) /\ \A j \in TagEnds(s, i) : e <= j
      /\ e \in i + 1 .. Len(s)
      /\ BeforeOpen(s) = TextTo(s, i - 1) /\ AfterOpen(s) = TextFrom(s, e + 1)
  BY OpenParts
<1> HIDE DEF i, e
<1>3. u \in Texts /\ Len(u) = Len(s) + Len(t) /\ \A k \in 1 .. Len(s) : u[k] = s[k]
  BY JoinFacts
<1>4. Begins(s, i) /\ i \in Nat \ {0} /\ i <= Len(s)
  BY <1>1, <1>2 DEF Opens
<1>5. Begins(u, i) /\ e \in TagEnds(u, i) /\ i \in 1 .. Len(u)
  <2>1. i \in 1 .. Len(u)
    BY <1>1, <1>2, <1>3
  <2> QED
    BY <1>2, <1>4, <2>1, BeginsJoin, TagEndsJoin
<1>6. i \in Opens(u)
  BY <1>5 DEF Opens
<1>7. ASSUME NEW j \in Opens(u)
      PROVE  i <= j
  <2>1. SUFFICES ASSUME j < i
                 PROVE  FALSE
    BY <1>2 DEF Opens
  <2>2. j \in Nat \ {0} /\ Begins(u, j)
    BY DEF Opens
  <2>3. u[i] = "<"
    <3>1. 1 \in 1 .. Len(OpenPrefix) /\ i + 1 - 1 = i
      BY <1>1, <1>4
    <3>2. s[i] = OpenPrefix[1]
      BY <1>4, <3>1 DEF Begins, Occurs
    <3> QED
      BY <1>2, <1>3, <3>2, TagFacts
  <2>4. i <= Len(u)
    BY <1>1, <1>3, <1>4
  <2>5. j + Len(OpenPrefix) <= i
    BY <1>3, <1>4, <2>1, <2>2, <2>3, <2>4, TagsApart
  <2>6. Begins(s, j)
    <3>1. j + Len(OpenPrefix) <= Len(s)
      BY <1>1, <1>4, <2>2, <2>5
    <3> QED
      BY <2>2, <3>1, BeginsJoin
  <2>7. e \in TagEnds(s, j)
    <3>1. e \in i + Len(OpenPrefix) .. Len(s) /\ s[e] = ">"
      BY <1>2 DEF TagEnds
    <3>2. e \in j + Len(OpenPrefix) .. Len(s)
      BY <1>1, <1>4, <2>1, <2>2, <3>1
    <3> QED
      BY <3>1, <3>2 DEF TagEnds
  <2>8. j \in 1 .. Len(s)
    BY <1>1, <1>2, <2>1, <2>2
  <2>9. j \in Opens(s)
    BY <2>6, <2>7, <2>8 DEF Opens
  <2> QED
    BY <1>2, <2>1, <2>2, <2>9
<1>8. Earliest(Opens(u)) = i
  <2>1. Opens(u) \subseteq Nat
    BY DEF Opens
  <2> QED
    BY <1>6, <1>7, <2>1, EarliestIs
<1>9. ASSUME NEW j \in TagEnds(u, i)
      PROVE  e <= j
  <2>1. j \in Nat
    BY <1>1, <1>4 DEF TagEnds
  <2>2. CASE j <= Len(s)
    BY <1>2, <1>4, <2>2, TagEndsJoin
  <2>3. CASE ~(j <= Len(s))
    BY <1>1, <1>2, <2>1, <2>3
  <2> QED
    BY <2>2, <2>3
<1>10. Earliest(TagEnds(u, i)) = e
  <2>1. TagEnds(u, i) \subseteq Nat
    BY <1>1, <1>4 DEF TagEnds
  <2> QED
    BY <1>5, <1>9, <2>1, EarliestIs
<1>11. BeforeOpen(u) = TextTo(u, i - 1) /\ AfterOpen(u) = TextFrom(u, e + 1)
  BY <1>8, <1>10 DEF BeforeOpen, AfterOpen
<1>12. i - 1 \in 0 .. Len(s) /\ e \in 0 .. Len(s)
  BY <1>1, <1>2
<1>13. TextTo(s \o t, i - 1) = TextTo(s, i - 1) /\ TextFrom(s \o t, e + 1) = TextFrom(s, e + 1) \o t
  BY <1>12, StartOfJoin, RestOfJoin
<1> QED
  BY <1>2, <1>6, <1>11, <1>13

\* A text that goes on keeps its first close tag.
LEMMA CloseStays ==
    ASSUME NEW s \in Texts, NEW t \in Texts, Closes(s) # {}
    PROVE  Closes(s \o t) # {} /\ AfterClose(s \o t) = AfterClose(s) \o t
<1> DEFINE u == s \o t
           i == Earliest(Closes(s))
           n == Len(CloseTag)
<1>1. Len(s) \in Nat /\ Len(t) \in Nat /\ n \in Nat \ {0} /\ CloseTag \in Texts
  BY TagFacts DEF Texts
<1> HIDE DEF n
<1>2. /\ i \in Closes(s) /\ i \in 1 .. Len(s) /\ \A j \in Closes(s) : i <= j
      /\ i + n - 1 <= Len(s)
      /\ AfterClose(s) = TextFrom(s, i + n)
  BY CloseParts DEF n
<1> HIDE DEF i
<1>3. Len(u) = Len(s) + Len(t)
  BY JoinFacts
<1>4. i \in Closes(u)
  <2>1. Occurs(CloseTag, s, i) /\ i \in Nat \ {0}
    BY <1>2 DEF Closes
  <2>2. Occurs(CloseTag, u, i)
    BY <1>1, <2>1, OccursJoin
  <2>3. i \in 1 .. Len(u)
    BY <1>1, <1>2, <1>3
  <2> QED
    BY <2>2, <2>3 DEF Closes
<1>5. ASSUME NEW j \in Closes(u)
      PROVE  i <= j
  <2>1. SUFFICES ASSUME j < i
                 PROVE  FALSE
    BY <1>2 DEF Closes
  <2>2. j \in Nat \ {0} /\ Occurs(CloseTag, u, j)
    BY DEF Closes
  <2>3. j + n - 1 <= Len(s) /\ j \in 1 .. Len(s)
    BY <1>1, <1>2, <2>1, <2>2
  <2>4. Occurs(CloseTag, s, j)
    BY <1>1, <2>2, <2>3, OccursJoin DEF n
  <2> QED
    BY <1>2, <2>1, <2>2, <2>3, <2>4 DEF Closes
<1>6. Earliest(Closes(u)) = i
  <2>1. Closes(u) \subseteq Nat
    BY DEF Closes
  <2> QED
    BY <1>4, <1>5, <2>1, EarliestIs
<1>7. AfterClose(u) = TextFrom(u, i + n)
  BY <1>6 DEF AfterClose, n
<1>8. i + n - 1 \in 0 .. Len(s) /\ (i + n - 1) + 1 = i + n
  BY <1>1, <1>2
<1>9. TextFrom(s \o t, (i + n - 1) + 1) = TextFrom(s, (i + n - 1) + 1) \o t
  BY <1>8, RestOfJoin
<1> QED
  BY <1>2, <1>4, <1>7, <1>8, <1>9

\* Behind a tag less is left.
LEMMA OpenShortens ==
    ASSUME NEW s \in Texts, Opens(s) # {}
    PROVE  BeforeOpen(s) \in Texts /\ AfterOpen(s) \in Texts /\ Len(AfterOpen(s)) < Len(s)
<1> DEFINE i == Earliest(Opens(s))
           e == Earliest(TagEnds(s, i))
<1>1. /\ i \in 1 .. Len(s) /\ e \in i + 1 .. Len(s) /\ Len(AfterOpen(s)) = Len(s) - e
      /\ BeforeOpen(s) \in Texts /\ AfterOpen(s) \in Texts
  BY OpenParts
<1> HIDE DEF i, e
<1>2. Len(s) \in Nat /\ e \in 1 .. Len(s)
  BY <1>1 DEF Texts
<1> QED
  BY <1>1, <1>2

\* The same behind a close tag.
LEMMA CloseShortens ==
    ASSUME NEW s \in Texts, Closes(s) # {}
    PROVE  AfterClose(s) \in Texts /\ Len(AfterClose(s)) < Len(s)
<1> DEFINE i == Earliest(Closes(s))
<1>1. /\ i \in 1 .. Len(s) /\ AfterClose(s) \in Texts
      /\ Len(AfterClose(s)) = Len(s) - (i + Len(CloseTag) - 1)
  BY CloseParts
<1> HIDE DEF i
<1>2. Len(s) \in Nat /\ Len(CloseTag) \in Nat \ {0}
  BY TagFacts DEF Texts
<1> QED
  BY <1>1, <1>2

-----------------------------------------------------------------------------
(* The think-tag filter: what the recursions compute *)

\* The answer in a text that is read outside or inside a think block.
Answer(m, s) ==
    IF m = "out" THEN Stripped[s]
    ELSE IF Closes(s) = {} THEN <<>> ELSE Stripped[AfterClose(s)]

\* The definition of Stripped has a solution, because each call is for less.
LEMMA StrippedSolved ==
    ASSUME NEW w \in Texts
    PROVE  /\ Stripped[w] \in Texts
           /\ Stripped[w] = IF Opens(w) = {} THEN w
                            ELSE BeforeOpen(w) \o Answer("in", AfterOpen(w))
<1> DEFINE body(f) == [s \in Texts |->
               IF Opens(s) = {} THEN s
               ELSE LET inner == AfterOpen(s)
                    IN  BeforeOpen(s) \o (IF Closes(inner) = {} THEN <<>> ELSE f[AfterClose(inner)])]
           ends == {s \in Texts : Opens(s) = {} \/ Closes(AfterOpen(s)) = {}}
           size == [s \in Texts |-> Len(s)]
           last == [s \in Texts |-> IF Opens(s) = {} THEN s
                                    ELSE IF Closes(AfterOpen(s)) = {} THEN BeforeOpen(s) ELSE <<>>]
           down == [s \in Texts |-> IF s \in ends THEN s ELSE AfterClose(AfterOpen(s))]
           join == [x \in Texts \X Texts |-> IF x[1] \in ends THEN <<>> ELSE BeforeOpen(x[1]) \o x[2]]
<1>1. ASSUME NEW s \in Texts, Opens(s) # {}
      PROVE  BeforeOpen(s) \in Texts /\ AfterOpen(s) \in Texts /\ Len(AfterOpen(s)) < Len(s)
  BY <1>1, OpenShortens
<1>2. ASSUME NEW s \in Texts, Closes(s) # {}
      PROVE  AfterClose(s) \in Texts /\ Len(AfterClose(s)) < Len(s)
  BY <1>2, CloseShortens
<1>3. ASSUME NEW s \in Texts \ ends
      PROVE  /\ Opens(s) # {} /\ Closes(AfterOpen(s)) # {}
             /\ AfterClose(AfterOpen(s)) \in Texts /\ Len(AfterClose(AfterOpen(s))) < Len(s)
  <2>1. Opens(s) # {} /\ Closes(AfterOpen(s)) # {}
    BY <1>3
  <2>2. AfterOpen(s) \in Texts /\ Len(AfterOpen(s)) < Len(s)
    BY <1>1, <2>1
  <2>3. AfterClose(AfterOpen(s)) \in Texts /\ Len(AfterClose(AfterOpen(s))) < Len(AfterOpen(s))
    BY <1>2, <2>1, <2>2
  <2>4. Len(s) \in Nat /\ Len(AfterOpen(s)) \in Nat /\ Len(AfterClose(AfterOpen(s))) \in Nat
    BY <2>2, <2>3 DEF Texts
  <2> QED
    BY <2>1, <2>2, <2>3, <2>4
<1>4. <<>> \in Texts
  BY DEF Texts
<1>5. size \in [Texts -> Nat] /\ ends \in SUBSET Texts
  BY DEF Texts
<1>6. last \in [Texts -> Texts]
  BY <1>1, <1>4
<1>7. down \in [Texts -> Texts]
  BY <1>3
<1>8. join \in [Texts \X Texts -> Texts]
  <2>1. ASSUME NEW x \in Texts \X Texts, x[1] \notin ends
        PROVE  BeforeOpen(x[1]) \o x[2] \in Texts
    <3>1. x[1] \in Texts /\ x[2] \in Texts
      OBVIOUS
    <3>2. BeforeOpen(x[1]) \in Texts
      BY <1>1, <2>1, <3>1
    <3> QED
      BY <3>1, <3>2, JoinFacts
  <2> HIDE DEF ends
  <2> QED
    BY <1>4, <2>1
<1>9. \A s \in Texts \ ends : size[down[s]] < size[s]
  BY <1>3
<1>10. PICK g \in [Texts -> Texts] :
           \A s \in Texts : g[s] = IF s \in ends THEN last[s] ELSE join[<<s, g[down[s]]>>]
  <2> HIDE DEF ends, size, last, down, join
  <2>1. Solvable(Texts, Texts, ends, last, down, join)
    BY <1>5, <1>6, <1>7, <1>8, <1>9, Recursion
  <2> QED
    BY <2>1 DEF Solvable, Solution
<1>11. ASSUME NEW s \in Texts
       PROVE  g[s] = body(g)[s]
  <2>1. CASE Opens(s) = {}
    BY <1>10, <2>1
  <2>2. CASE Opens(s) # {} /\ Closes(AfterOpen(s)) = {}
    <3>1. g[s] = BeforeOpen(s)
      BY <1>10, <2>2
    <3>2. BeforeOpen(s) \o <<>> = BeforeOpen(s)
      BY <1>1, <2>2, JoinEmpty
    <3> QED
      BY <2>2, <3>1, <3>2
  <2>3. CASE Opens(s) # {} /\ Closes(AfterOpen(s)) # {}
    <3>1. s \notin ends
      BY <2>3
    <3>2. down[s] = AfterClose(AfterOpen(s)) /\ down[s] \in Texts
      BY <1>3, <3>1
    <3> HIDE DEF ends, down, last, size
    <3>3. g[s] = join[<<s, g[down[s]]>>] /\ g[down[s]] \in Texts
      BY <1>10, <3>1, <3>2
    <3>4. <<s, g[down[s]]>> \in Texts \X Texts
      BY <3>3
    <3>5. g[s] = BeforeOpen(s) \o g[down[s]]
      BY <3>1, <3>3, <3>4
    <3> QED
      BY <2>3, <3>2, <3>5
  <2> QED
    BY <2>1, <2>2, <2>3
<1>12. g = body(g)
  <2>1. g = [s \in Texts |-> g[s]] /\ body(g) = [s \in Texts |-> body(g)[s]]
    OBVIOUS
  <2> HIDE DEF body
  <2> QED
    BY <1>11, <2>1
<1>13. Stripped = CHOOSE f : f = body(f)
  BY DEF Stripped
<1>14. Stripped = body(Stripped)
  <2> HIDE DEF body
  <2> QED
    BY <1>12, <1>13
<1>15. ASSUME NEW s \in Texts
       PROVE  Stripped[s] = body(Stripped)[s]
  <2> HIDE DEF body
  <2> QED
    BY <1>14
<1> DEFINE Astray == {s \in Texts : Stripped[s] \notin Texts}
           Lengths == {Len(s) : s \in Astray}
<1>16. Lengths = {}
  <2>1. SUFFICES ASSUME Lengths # {}
                 PROVE  FALSE
    OBVIOUS
  <2>2. PICK n \in Lengths : \A k \in Lengths : n <= k
    <3>1. Lengths \subseteq Nat
      BY DEF Texts
    <3> HIDE DEF Lengths
    <3> QED
      BY <2>1, <3>1, LeastNumber
  <2>3. PICK s \in Astray : n = Len(s)
    BY <2>2
  <2>4. s \in Texts /\ Stripped[s] \notin Texts
    BY <2>3
  <2>5. Opens(s) # {}
    BY <1>15, <2>4
  <2>6. BeforeOpen(s) \in Texts /\ BeforeOpen(s) \o <<>> \in Texts
    BY <1>1, <1>4, <2>4, <2>5, JoinFacts
  <2>7. Closes(AfterOpen(s)) # {}
    BY <1>15, <2>4, <2>5, <2>6
  <2>8. Stripped[s] = BeforeOpen(s) \o Stripped[AfterClose(AfterOpen(s))]
    BY <1>15, <2>4, <2>5, <2>7
  <2>9. AfterClose(AfterOpen(s)) \in Texts /\ Len(AfterClose(AfterOpen(s))) < Len(s)
    BY <1>3, <2>4, <2>5, <2>7
  <2>10. Stripped[AfterClose(AfterOpen(s))] \notin Texts
    BY <2>4, <2>6, <2>8, JoinFacts
  <2>11. n <= Len(AfterClose(AfterOpen(s)))
    BY <2>2, <2>9, <2>10
  <2>12. n \in Nat /\ Len(AfterClose(AfterOpen(s))) \in Nat
    BY <2>3, <2>4, <2>9 DEF Texts
  <2> QED
    BY <2>3, <2>9, <2>11, <2>12
<1>17. \A s \in Texts : Stripped[s] \in Texts
  BY <1>16
<1> QED
  BY <1>15, <1>17 DEF Answer

\* The ends of a text.
LEMMA WholeAndNothing ==
    ASSUME NEW s \in Texts
    PROVE  /\ TextTo(s, Len(s)) = s /\ TextFrom(s, 1) = s
           /\ TextTo(s, 0) = <<>> /\ TextFrom(s, Len(s) + 1) = <<>>
<1>1. Len(s) \in Nat /\ <<>> \in Texts /\ Len(<<>>) = 0
  BY DEF Texts
<1>2. TextTo(s, Len(s)) = s
  <2> DEFINE a == TextTo(s, Len(s))
  <2>1. a \in Texts /\ Len(a) = Len(s) /\ \A k \in 1 .. Len(s) : a[k] = s[k]
    BY <1>1, TextToFacts
  <2> HIDE DEF a
  <2>2. a = s
    BY <2>1, SameText
  <2> QED
    BY <2>2 DEF a
<1>3. TextFrom(s, 1) = s
  <2> DEFINE a == TextFrom(s, 1)
  <2>1. 1 \in 1 .. Len(s) + 1 /\ Len(s) - 1 + 1 = Len(s)
    BY <1>1
  <2>2. a \in Texts /\ Len(a) = Len(s) /\ \A k \in 1 .. Len(s) : a[k] = s[1 + k - 1]
    BY <2>1, TextFromFacts
  <2>3. \A k \in 1 .. Len(s) : 1 + k - 1 = k
    BY <1>1
  <2> HIDE DEF a
  <2>4. a = s
    BY <2>2, <2>3, SameText
  <2> QED
    BY <2>4 DEF a
<1>4. TextTo(s, 0) = <<>>
  <2> DEFINE a == TextTo(s, 0)
  <2>1. a \in Texts /\ Len(a) = 0
    BY <1>1, TextToFacts
  <2> HIDE DEF a
  <2>2. a = <<>>
    BY <1>1, <2>1, SameText
  <2> QED
    BY <2>2 DEF a
<1>5. TextFrom(s, Len(s) + 1) = <<>>
  <2> DEFINE a == TextFrom(s, Len(s) + 1)
  <2>1. Len(s) + 1 \in 1 .. Len(s) + 1 /\ Len(s) - (Len(s) + 1) + 1 = 0
    BY <1>1
  <2>2. a \in Texts /\ Len(a) = 0
    BY <2>1, TextFromFacts
  <2> HIDE DEF a
  <2>3. a = <<>>
    BY <1>1, <2>2, SameText
  <2> QED
    BY <2>3 DEF a
<1> QED
  BY <1>2, <1>3, <1>4, <1>5

\* Holds cuts the text; what it keeps is short, and no "<" that might begin a
\* tag is let through.
LEMMA HoldsFacts ==
    ASSUME NEW b \in Texts
    PROVE  \E d \in 0 .. Len(b) :
               /\ Holds(b) = [out |-> TextTo(b, d), mode |-> "out", buf |-> TextFrom(b, d + 1)]
               /\ Len(b) - d <= Len(OpenPrefix)
               /\ \A i \in 1 .. d : i > Len(b) - Len(OpenPrefix) => b[i] # "<"
<1> DEFINE tail == {i \in 1 .. Len(b) : i > Len(b) - Len(OpenPrefix) /\ b[i] = "<"}
<1>1. Len(b) \in Nat /\ Len(OpenPrefix) \in Nat
  BY TagFacts DEF Texts
<1>2. CASE tail = {}
  <2>1. Holds(b) = [out |-> b, mode |-> "out", buf |-> <<>>]
    BY <1>2 DEF Holds
  <2>2. Holds(b) = [out |-> TextTo(b, Len(b)), mode |-> "out", buf |-> TextFrom(b, Len(b) + 1)]
    BY <2>1, WholeAndNothing
  <2>3. \A i \in 1 .. Len(b) : i > Len(b) - Len(OpenPrefix) => b[i] # "<"
    BY <1>2
  <2>4. Len(b) \in 0 .. Len(b) /\ Len(b) - Len(b) <= Len(OpenPrefix)
    BY <1>1
  <2> QED
    BY <2>2, <2>3, <2>4
<1>3. CASE tail # {}
  <2> DEFINE l == Earliest(tail)
             d == l - 1
  <2>1. l \in tail /\ \A j \in tail : l <= j
    <3>1. tail \subseteq Nat
      OBVIOUS
    <3> HIDE DEF tail
    <3> QED
      BY <1>3, <3>1, EarliestFacts
  <2>2. Holds(b) = [out |-> TextTo(b, l - 1), mode |-> "out", buf |-> TextFrom(b, l)]
    BY <1>3 DEF Holds
  <2> HIDE DEF l
  <2>3. l \in 1 .. Len(b) /\ l > Len(b) - Len(OpenPrefix)
    BY <2>1
  <2>4. d \in 0 .. Len(b) /\ d + 1 = l /\ Len(b) - d <= Len(OpenPrefix)
    BY <1>1, <2>3
  <2>5. ASSUME NEW i \in 1 .. d, i > Len(b) - Len(OpenPrefix)
        PROVE  b[i] # "<"
    <3>1. i \in 1 .. Len(b) /\ ~(l <= i)
      BY <1>1, <2>3, <2>4
    <3> QED
      BY <2>1, <2>5, <3>1
  <2> QED
    BY <2>2, <2>4, <2>5
<1> QED
  BY <1>2, <1>3

\* KeepsTail drops what no close tag can reach back to.
LEMMA KeepsFacts ==
    ASSUME NEW b \in Texts
    PROVE  \E d \in 0 .. Len(b) :
               /\ KeepsTail(b) = [out |-> <<>>, mode |-> "in", buf |-> TextFrom(b, d + 1)]
               /\ \A i \in 1 .. d : i + Len(CloseTag) - 1 <= Len(b)
<1> DEFINE kept == Len(CloseTag) - 1
<1>1. Len(b) \in Nat /\ Len(CloseTag) \in Nat \ {0} /\ kept \in Nat
  BY TagFacts DEF Texts
<1>2. CASE Len(b) <= kept
  <2>1. KeepsTail(b) = [out |-> <<>>, mode |-> "in", buf |-> TextFrom(b, 0 + 1)]
    BY <1>2, WholeAndNothing DEF KeepsTail
  <2>2. 0 \in 0 .. Len(b) /\ 1 .. 0 = {}
    BY <1>1
  <2> QED
    BY <2>1, <2>2
<1>3. CASE ~(Len(b) <= kept)
  <2>1. KeepsTail(b) = [out |-> <<>>, mode |-> "in", buf |-> TextFrom(b, (Len(b) - kept) + 1)]
    BY <1>3 DEF KeepsTail
  <2>2. Len(b) - kept \in 0 .. Len(b)
    BY <1>1, <1>3
  <2>3. \A i \in 1 .. Len(b) - kept : i + Len(CloseTag) - 1 <= Len(b)
    BY <1>1
  <2> HIDE DEF kept
  <2> QED
    BY <2>1, <2>2, <2>3
<1> QED
  BY <1>2, <1>3

\* Text in front of every open tag goes through as it is.
LEMMA OpenLater ==
    ASSUME NEW s \in Texts, NEW d \in 0 .. Len(s), \A j \in Opens(s) : d < j
    PROVE  Stripped[s] = TextTo(s, d) \o Stripped[TextFrom(s, d + 1)]
<1> DEFINE r == TextFrom(s, d + 1)
<1>1. Len(s) \in Nat /\ d \in Nat /\ d <= Len(s)
  BY DEF Texts
<1>2. r \in Texts /\ Len(r) = Len(s) - d
  <2>1. d + 1 \in 1 .. Len(s) + 1 /\ Len(s) - (d + 1) + 1 = Len(s) - d
    BY <1>1
  <2> QED
    BY <2>1, TextFromFacts
<1>3. \A i \in Nat \ {0} : i \in Opens(r) <=> d + i \in Opens(s)
  BY OpensRest
<1>4. \A i, j \in Nat : i # 0 => (j \in TagEnds(r, i) <=> d + j \in TagEnds(s, d + i))
  BY TagEndsRest
<1>5. Opens(r) \subseteq Nat \ {0} /\ Opens(s) \subseteq Nat \ {0}
  BY DEF Opens
<1> DEFINE i == Earliest(Opens(s))
           e == Earliest(TagEnds(s, i))
<1>6. CASE Opens(s) = {}
  <2>1. Opens(r) = {}
    BY <1>3, <1>5, <1>6
  <2>2. Stripped[s] = s /\ Stripped[r] = r
    BY <1>2, <1>6, <2>1, StrippedSolved
  <2> QED
    BY <2>2, PartsJoin
<1>7. CASE Opens(s) # {}
  <2>1. /\ i \in Opens(s) /\ i \in 1 .. Len(s) /\ \A j \in Opens(s) : i <= j
        /\ e \in TagEnds(s, i) /\ \A j \in TagEnds(s, i) : e <= j
        /\ e \in i + 1 .. Len(s)
        /\ BeforeOpen(s) = TextTo(s, i - 1) /\ AfterOpen(s) = TextFrom(s, e + 1)
        /\ AfterOpen(s) \in Texts
    BY <1>7, OpenParts
  <2> HIDE DEF i, e
  <2> DEFINE i2 == i - d
             e2 == e - d
  <2>2. d < i /\ i \in Nat /\ e \in Nat /\ i < e /\ e <= Len(s)
    BY <1>1, <2>1
  <2>3. /\ i2 \in Nat \ {0} /\ d + i2 = i /\ e2 \in Nat /\ d + e2 = e
        /\ e2 \in 0 .. Len(s) - d /\ i2 - 1 \in 0 .. Len(s) - d /\ d + (i2 - 1) = i - 1
    BY <1>1, <2>2
  <2> HIDE DEF i2, e2, r
  <2>4. i2 \in Opens(r) /\ e2 \in TagEnds(r, i2)
    BY <1>3, <1>4, <2>1, <2>3
  <2>5. Earliest(Opens(r)) = i2
    <3>1. ASSUME NEW j \in Opens(r)
          PROVE  i2 <= j
      <4>1. j \in Nat \ {0} /\ i <= d + j
        BY <1>3, <1>5, <2>1
      <4> QED
        BY <1>1, <2>2, <2>3, <4>1 DEF i2
    <3> QED
      BY <1>5, <2>4, <3>1, EarliestIs
  <2>6. TagEnds(r, i2) \subseteq Nat
    BY <2>3, TagFacts DEF TagEnds
  <2>7. Earliest(TagEnds(r, i2)) = e2
    <3>1. ASSUME NEW j \in TagEnds(r, i2)
          PROVE  e2 <= j
      <4>1. j \in Nat
        BY <2>6
      <4>2. e <= d + j
        BY <1>4, <2>1, <2>3, <4>1
      <4> QED
        BY <1>1, <2>2, <4>1, <4>2 DEF e2
    <3> QED
      BY <2>4, <2>6, <3>1, EarliestIs
  <2>8. BeforeOpen(r) = TextTo(r, i2 - 1) /\ AfterOpen(r) = TextFrom(r, e2 + 1)
    BY <2>5, <2>7 DEF BeforeOpen, AfterOpen
  <2>9. AfterOpen(r) = AfterOpen(s)
    BY <2>1, <2>3, <2>8, RestOfRest DEF r
  <2>10. BeforeOpen(s) = TextTo(s, d) \o BeforeOpen(r)
    <3>1. TextTo(s, d + (i2 - 1)) = TextTo(s, d) \o TextTo(r, i2 - 1)
      BY <2>3, StartSplits DEF r
    <3> QED
      BY <2>1, <2>3, <2>8, <3>1
  <2> DEFINE rest == Answer("in", AfterOpen(s))
  <2>11. Stripped[s] = BeforeOpen(s) \o rest
    BY <1>7, StrippedSolved
  <2>12. Stripped[r] = BeforeOpen(r) \o rest
    BY <1>2, <2>4, <2>9, StrippedSolved
  <2>13. rest \in Texts
    BY <2>1, CloseShortens, StrippedSolved, JoinEmpty DEF Answer
  <2>14. TextTo(s, d) \in Texts /\ BeforeOpen(r) \in Texts
    BY <1>2, <2>4, TextToFacts, OpenShortens
  <2> HIDE DEF rest
  <2>15. (TextTo(s, d) \o BeforeOpen(r)) \o rest = TextTo(s, d) \o (BeforeOpen(r) \o rest)
    BY <2>13, <2>14, JoinAssociates
  <2> QED
    BY <2>10, <2>11, <2>12, <2>15 DEF r
<1> QED
  BY <1>6, <1>7

\* Text in front of every close tag is nothing to the answer.
LEMMA CloseLater ==
    ASSUME NEW s \in Texts, NEW d \in 0 .. Len(s), \A j \in Closes(s) : d < j
    PROVE  Answer("in", s) = Answer("in", TextFrom(s, d + 1))
<1> DEFINE r == TextFrom(s, d + 1)
           n == Len(CloseTag)
<1>1. Len(s) \in Nat /\ d \in Nat /\ d <= Len(s) /\ n \in Nat \ {0}
  BY TagFacts DEF Texts
<1>2. r \in Texts /\ Len(r) = Len(s) - d
  <2>1. d + 1 \in 1 .. Len(s) + 1 /\ Len(s) - (d + 1) + 1 = Len(s) - d
    BY <1>1
  <2> QED
    BY <2>1, TextFromFacts
<1>3. \A i \in Nat \ {0} : i \in Closes(r) <=> d + i \in Closes(s)
  BY ClosesRest
<1>4. Closes(r) \subseteq Nat \ {0} /\ Closes(s) \subseteq Nat \ {0}
  BY DEF Closes
<1> DEFINE i == Earliest(Closes(s))
<1>5. CASE Closes(s) = {}
  <2>1. Closes(r) = {}
    BY <1>3, <1>4, <1>5
  <2> QED
    BY <1>5, <2>1 DEF Answer
<1>6. CASE Closes(s) # {}
  <2>1. /\ i \in Closes(s) /\ i \in 1 .. Len(s) /\ \A j \in Closes(s) : i <= j
        /\ i + n - 1 <= Len(s) /\ AfterClose(s) = TextFrom(s, i + n)
    BY <1>6, CloseParts
  <2> HIDE DEF i, r, n
  <2> DEFINE i2 == i - d
             e2 == i2 + n - 1
  <2>2. /\ i2 \in Nat \ {0} /\ d + i2 = i /\ i2 + n = e2 + 1 /\ d + e2 + 1 = i + n
        /\ e2 \in 0 .. Len(s) - d
    BY <1>1, <2>1
  <2> HIDE DEF i2, e2
  <2>3. i2 \in Closes(r)
    BY <1>3, <2>1, <2>2
  <2>4. ASSUME NEW j \in Closes(r)
        PROVE  i2 <= j
    <3>1. j \in Nat \ {0} /\ i <= d + j
      BY <1>3, <1>4, <2>1
    <3> QED
      BY <1>1, <2>1, <2>2, <3>1 DEF i2
  <2>5. Earliest(Closes(r)) = i2
    BY <1>4, <2>3, <2>4, EarliestIs
  <2>6. AfterClose(r) = TextFrom(r, e2 + 1)
    BY <2>2, <2>5 DEF AfterClose, n
  <2>7. AfterClose(r) = AfterClose(s)
    BY <2>1, <2>2, <2>6, RestOfRest DEF r
  <2> QED
    BY <1>6, <2>3, <2>7 DEF Answer, r
<1> QED
  BY <1>5, <1>6

-----------------------------------------------------------------------------
(* The think-tag filter: the loop of feed *)

\* What a call of feed comes to.
Outcomes == [out : Texts, mode : {"out", "in"}, buf : Texts]

\* The fields of a filter.
LEMMA FilterFacts ==
    ASSUME NEW m \in {"out", "in"}, NEW b \in Texts
    PROVE  Filter(m, b) \in Filters /\ Filter(m, b).mode = m /\ Filter(m, b).buf = b
  BY DEF Filter, Filters

\* The same of outcomes.
LEMMA OutcomeFacts ==
    ASSUME NEW o \in Texts, NEW m \in {"out", "in"}, NEW b \in Texts
    PROVE  /\ [out |-> o, mode |-> m, buf |-> b] \in Outcomes
           /\ [out |-> o, mode |-> m, buf |-> b].out = o
           /\ [out |-> o, mode |-> m, buf |-> b].mode = m
           /\ [out |-> o, mode |-> m, buf |-> b].buf = b
  BY DEF Outcomes

\* What is emitted and kept where no tag is found are texts.
LEMMA StopFacts ==
    ASSUME NEW b \in Texts
    PROVE  Holds(b) \in Outcomes /\ KeepsTail(b) \in Outcomes
<1>1. Len(b) \in Nat
  BY DEF Texts
<1>2. ASSUME NEW d \in 0 .. Len(b)
      PROVE  TextTo(b, d) \in Texts /\ TextFrom(b, d + 1) \in Texts
  BY <1>1, TextToFacts, TextFromFacts
<1>3. Holds(b) \in Outcomes
  <2>1. PICK d \in 0 .. Len(b) : Holds(b) = [out |-> TextTo(b, d), mode |-> "out", buf |-> TextFrom(b, d + 1)]
    BY HoldsFacts
  <2> QED
    BY <1>2, <2>1, OutcomeFacts
<1>4. KeepsTail(b) \in Outcomes
  <2>1. PICK d \in 0 .. Len(b) : KeepsTail(b) = [out |-> <<>>, mode |-> "in", buf |-> TextFrom(b, d + 1)]
    BY KeepsFacts
  <2>2. <<>> \in Texts
    BY DEF Texts
  <2> QED
    BY <1>2, <2>1, <2>2, OutcomeFacts
<1> QED
  BY <1>3, <1>4

\* One round of the loop of feed.
Round(f, F) ==
    IF f.mode = "out"
    THEN IF Opens(f.buf) = {} THEN Holds(f.buf)
         ELSE LET rest == F[Filter("in", AfterOpen(f.buf))]
              IN  [out |-> BeforeOpen(f.buf) \o rest.out, mode |-> rest.mode, buf |-> rest.buf]
    ELSE IF Closes(f.buf) = {} THEN KeepsTail(f.buf)
    ELSE F[Filter("out", AfterClose(f.buf))]

\* Where the loop ends, and what the next round gets.
Stops(f) == IF f.mode = "out" THEN Opens(f.buf) = {} ELSE Closes(f.buf) = {}
NextRound(f) == IF f.mode = "out" THEN Filter("in", AfterOpen(f.buf)) ELSE Filter("out", AfterClose(f.buf))

\* A round that does not stop leaves a shorter text.
LEMMA RoundFacts ==
    ASSUME NEW f \in Filters, ~Stops(f)
    PROVE  /\ NextRound(f) \in Filters /\ Len(NextRound(f).buf) < Len(f.buf)
           /\ Len(f.buf) \in Nat /\ Len(NextRound(f).buf) \in Nat
<1>1. f.mode \in {"out", "in"} /\ f.buf \in Texts
  BY DEF Filters
<1>2. CASE f.mode = "out"
  <2>1. Opens(f.buf) # {}
    BY <1>2 DEF Stops
  <2>2. AfterOpen(f.buf) \in Texts /\ Len(AfterOpen(f.buf)) < Len(f.buf)
    BY <1>1, <2>1, OpenShortens
  <2>3. NextRound(f) = Filter("in", AfterOpen(f.buf))
    BY <1>2 DEF NextRound
  <2>4. NextRound(f) \in Filters /\ NextRound(f).buf = AfterOpen(f.buf)
    BY <2>2, <2>3, FilterFacts
  <2> QED
    BY <1>1, <2>2, <2>4 DEF Texts
<1>3. CASE f.mode = "in"
  <2>1. Closes(f.buf) # {}
    BY <1>3 DEF Stops
  <2>2. AfterClose(f.buf) \in Texts /\ Len(AfterClose(f.buf)) < Len(f.buf)
    BY <1>1, <2>1, CloseShortens
  <2>3. NextRound(f) = Filter("out", AfterClose(f.buf))
    BY <1>3 DEF NextRound
  <2>4. NextRound(f) \in Filters /\ NextRound(f).buf = AfterClose(f.buf)
    BY <2>2, <2>3, FilterFacts
  <2> QED
    BY <1>1, <2>2, <2>4 DEF Texts
<1> QED
  BY <1>1, <1>2, <1>3

\* A round comes to an outcome if the next one does.
LEMMA RoundTyped ==
    ASSUME NEW f \in Filters, NEW F, Stops(f) \/ F[NextRound(f)] \in Outcomes
    PROVE  Round(f, F) \in Outcomes
<1>1. f.mode \in {"out", "in"} /\ f.buf \in Texts
  BY DEF Filters
<1>2. CASE Stops(f)
  BY <1>1, <1>2, StopFacts DEF Stops, Round
<1>3. CASE ~Stops(f) /\ f.mode = "out"
  <2>1. Opens(f.buf) # {} /\ F[Filter("in", AfterOpen(f.buf))] \in Outcomes
    BY <1>3 DEF Stops, NextRound
  <2> DEFINE rest == F[Filter("in", AfterOpen(f.buf))]
  <2>2. rest.out \in Texts /\ rest.mode \in {"out", "in"} /\ rest.buf \in Texts
    BY <2>1 DEF Outcomes
  <2>3. Round(f, F) = [out |-> BeforeOpen(f.buf) \o rest.out, mode |-> rest.mode, buf |-> rest.buf]
    BY <1>3, <2>1 DEF Round
  <2> HIDE DEF rest
  <2>4. BeforeOpen(f.buf) \in Texts
    BY <1>1, <2>1, OpenShortens
  <2>5. BeforeOpen(f.buf) \o rest.out \in Texts
    BY <2>2, <2>4, JoinFacts
  <2>6. [out |-> BeforeOpen(f.buf) \o rest.out, mode |-> rest.mode, buf |-> rest.buf] \in Outcomes
    BY <2>2, <2>5 DEF Outcomes
  <2> QED
    BY <2>3, <2>6
<1>4. CASE ~Stops(f) /\ f.mode = "in"
  BY <1>3, <1>4 DEF Stops, NextRound, Round
<1> QED
  BY <1>1, <1>2, <1>3, <1>4

\* The definition of Feed has a solution, because each round is left with less.
LEMMA FeedSolved ==
    ASSUME NEW f \in Filters
    PROVE  Feed[f] \in Outcomes /\ Feed[f] = Round(f, Feed)
<1> DEFINE nothing == [out |-> <<>>, mode |-> "out", buf |-> <<>>]
           body(F) == [x \in Filters |-> Round(x, F)]
           ends == {x \in Filters : Stops(x)}
           size == [x \in Filters |-> Len(x.buf)]
           last == [x \in Filters |-> IF x.mode = "out" THEN Holds(x.buf) ELSE KeepsTail(x.buf)]
           down == [x \in Filters |-> IF Stops(x) THEN x ELSE NextRound(x)]
           join == [z \in Filters \X Outcomes |->
                        IF z[1].mode = "out"
                        THEN IF Opens(z[1].buf) = {} THEN nothing
                             ELSE [out  |-> BeforeOpen(z[1].buf) \o z[2].out,
                                   mode |-> z[2].mode, buf |-> z[2].buf]
                        ELSE z[2]]
<1>1. ASSUME NEW x \in Filters
      PROVE  x.mode \in {"out", "in"} /\ x.buf \in Texts /\ Len(x.buf) \in Nat
  BY DEF Filters, Texts
<1>2. size \in [Filters -> Nat] /\ ends \in SUBSET Filters
  BY <1>1
<1>3. last \in [Filters -> Outcomes]
  BY <1>1, StopFacts
<1>4. down \in [Filters -> Filters]
  BY RoundFacts
<1>5. join \in [Filters \X Outcomes -> Outcomes]
  <2>1. ASSUME NEW z \in Filters \X Outcomes
        PROVE  join[z] \in Outcomes
    <3>1. z[1] \in Filters /\ z[2] \in Outcomes /\ z[1].buf \in Texts
      BY <1>1
    <3>2. z[2].out \in Texts /\ z[2].mode \in {"out", "in"} /\ z[2].buf \in Texts
      BY <3>1 DEF Outcomes
    <3>3. nothing \in Outcomes
      BY DEF Outcomes, Texts
    <3>4. CASE z[1].mode = "out" /\ Opens(z[1].buf) # {}
      <4>1. BeforeOpen(z[1].buf) \o z[2].out \in Texts
        BY <3>1, <3>2, <3>4, OpenShortens, JoinFacts
      <4>2. [out |-> BeforeOpen(z[1].buf) \o z[2].out, mode |-> z[2].mode, buf |-> z[2].buf] \in Outcomes
        BY <3>2, <4>1 DEF Outcomes
      <4> QED
        BY <3>4, <4>2
    <3>5. CASE ~(z[1].mode = "out" /\ Opens(z[1].buf) # {})
      BY <3>1, <3>3, <3>5
    <3> QED
      BY <3>4, <3>5
  <2>2. join = [z \in Filters \X Outcomes |-> join[z]]
    OBVIOUS
  <2> HIDE DEF join
  <2> QED
    BY <2>1, <2>2
<1>6. \A x \in Filters \ ends : size[down[x]] < size[x]
  BY <1>4, RoundFacts
<1>7. PICK g \in [Filters -> Outcomes] :
          \A x \in Filters : g[x] = IF x \in ends THEN last[x] ELSE join[<<x, g[down[x]]>>]
  <2> HIDE DEF ends, size, last, down, join
  <2>1. Solvable(Filters, Outcomes, ends, last, down, join)
    BY <1>2, <1>3, <1>4, <1>5, <1>6, Recursion
  <2> QED
    BY <2>1 DEF Solvable, Solution
<1>8. ASSUME NEW x \in Filters
      PROVE  g[x] = Round(x, g)
  <2>1. CASE Stops(x)
    BY <1>1, <1>7, <2>1 DEF Stops, Round
  <2>2. CASE ~Stops(x)
    <3>1. down[x] = NextRound(x) /\ x \notin ends /\ NextRound(x) \in Filters
      BY <2>2, RoundFacts
    <3> HIDE DEF ends, down, last, size, join
    <3>2. g[x] = join[<<x, g[NextRound(x)]>>] /\ g[NextRound(x)] \in Outcomes
      BY <1>7, <3>1
    <3>3. <<x, g[NextRound(x)]>> \in Filters \X Outcomes
      BY <3>2
    <3>4. x.mode = "out" => /\ Opens(x.buf) # {}
                           /\ NextRound(x) = Filter("in", AfterOpen(x.buf))
      BY <2>2 DEF Stops, NextRound
    <3>5. x.mode # "out" => /\ Closes(x.buf) # {}
                           /\ NextRound(x) = Filter("out", AfterClose(x.buf))
      BY <2>2 DEF Stops, NextRound
    <3>6. join[<<x, g[NextRound(x)]>>] =
             IF x.mode = "out"
             THEN IF Opens(x.buf) = {} THEN nothing
                  ELSE [out  |-> BeforeOpen(x.buf) \o g[NextRound(x)].out,
                        mode |-> g[NextRound(x)].mode, buf |-> g[NextRound(x)].buf]
             ELSE g[NextRound(x)]
      BY <3>3 DEF join
    <3> HIDE DEF nothing
    <3>7. CASE x.mode = "out"
      BY <3>2, <3>4, <3>6, <3>7 DEF Round
    <3>8. CASE x.mode # "out"
      BY <3>2, <3>5, <3>6, <3>8 DEF Round
    <3> QED
      BY <3>7, <3>8
  <2> QED
    BY <2>1, <2>2
<1>9. g = body(g)
  <2>1. g = [x \in Filters |-> g[x]]
    OBVIOUS
  <2> QED
    BY <1>8, <2>1
<1>10. Feed = CHOOSE F : F = body(F)
  BY DEF Feed, Round, Filters
<1>11. Feed = body(Feed)
  <2> HIDE DEF body
  <2> QED
    BY <1>9, <1>10
<1>12. ASSUME NEW x \in Filters
       PROVE  Feed[x] = Round(x, Feed)
  <2>1. body(Feed)[x] = Round(x, Feed)
    OBVIOUS
  <2> HIDE DEF body
  <2> QED
    BY <1>11, <2>1
<1> DEFINE Astray == {x \in Filters : Feed[x] \notin Outcomes}
           Lengths == {Len(x.buf) : x \in Astray}
<1>13. Lengths = {}
  <2>1. SUFFICES ASSUME Lengths # {}
                 PROVE  FALSE
    OBVIOUS
  <2>2. PICK n \in Lengths : \A k \in Lengths : n <= k
    <3>1. Lengths \subseteq Nat
      BY <1>1
    <3> HIDE DEF Lengths
    <3> QED
      BY <2>1, <3>1, LeastNumber
  <2>3. PICK x \in Astray : n = Len(x.buf)
    BY <2>2
  <2>4. x \in Filters /\ Feed[x] \notin Outcomes
    BY <2>3
  <2>5. ~Stops(x) /\ Feed[NextRound(x)] \notin Outcomes
    BY <1>12, <2>4, RoundTyped
  <2>6. NextRound(x) \in Filters /\ Len(NextRound(x).buf) < n /\ Len(NextRound(x).buf) \in Nat /\ n \in Nat
    BY <2>3, <2>4, <2>5, RoundFacts
  <2>7. n <= Len(NextRound(x).buf)
    BY <2>2, <2>5, <2>6
  <2> QED
    BY <2>6, <2>7
<1> QED
  BY <1>12, <1>13

-----------------------------------------------------------------------------
(* The think-tag filter: what is held back *)

\* What the filter holds back cannot be told from a tag yet.
Settled(m, b) ==
    IF m = "out" THEN Opens(b) = {} /\ Len(b) <= Len(OpenPrefix) ELSE Closes(b) = {}

\* r is what the filter may make of f: whatever follows, the answer is the same
\* as if the text had come at once, and what is kept is the end of the text.
Fits(f, r) ==
    /\ \A t \in Texts : Answer(f.mode, f.buf \o t) = r.out \o Answer(r.mode, r.buf \o t)
    /\ \E d \in 0 .. Len(f.buf) : r.buf = TextFrom(f.buf, d + 1)
    /\ Settled(r.mode, r.buf)

\* The answer is a text.
LEMMA AnswerTyped ==
    ASSUME NEW m \in {"out", "in"}, NEW s \in Texts
    PROVE  Answer(m, s) \in Texts
<1>1. <<>> \in Texts
  BY DEF Texts
<1> QED
  BY <1>1, StrippedSolved, CloseShortens DEF Answer

\* The end of a text that is in no attributes is in none.
LEMMA AttributesRest ==
    ASSUME NEW s \in Texts, NEW d \in 0 .. Len(s), ~InAttributes(s)
    PROVE  ~InAttributes(TextFrom(s, d + 1))
<1> DEFINE r == TextFrom(s, d + 1)
<1>1. Len(s) \in Nat /\ d \in Nat
  BY DEF Texts
<1>2. Len(r) = Len(s) - d
  <2>1. d + 1 \in 1 .. Len(s) + 1 /\ Len(s) - (d + 1) + 1 = Len(s) - d
    BY <1>1
  <2> QED
    BY <2>1, TextFromFacts
<1>3. SUFFICES ASSUME NEW i \in 1 .. Len(r), Begins(r, i), TagEnds(r, i) = {}
               PROVE  FALSE
  BY DEF InAttributes
<1> HIDE DEF r
<1>4. i \in Nat \ {0} /\ d + i \in 1 .. Len(s)
  BY <1>1, <1>2
<1>5. Begins(s, d + i)
  BY <1>3, <1>4, BeginsRest DEF r
<1>6. TagEnds(s, d + i) = {}
  <2>1. SUFFICES ASSUME NEW j \in TagEnds(s, d + i)
                 PROVE  FALSE
    OBVIOUS
  <2>2. j - d \in Nat /\ d + (j - d) = j
    BY <1>1, <1>4, TagFacts DEF TagEnds
  <2>3. j - d \in TagEnds(r, i)
    BY <1>4, <2>1, <2>2, TagEndsRest DEF r
  <2> QED
    BY <1>3, <2>3
<1> QED
  BY <1>4, <1>5, <1>6 DEF InAttributes

\* Where the loop stops outside a block, what is emitted is part of the answer.
LEMMA HoldsFits ==
    ASSUME NEW b \in Texts, Opens(b) = {}, ~InAttributes(b)
    PROVE  Fits(Filter("out", b), Holds(b))
<1>1. Len(b) \in Nat /\ Len(OpenPrefix) \in Nat \ {0}
  BY TagFacts DEF Texts
<1>2. PICK d \in 0 .. Len(b) :
          /\ Holds(b) = [out |-> TextTo(b, d), mode |-> "out", buf |-> TextFrom(b, d + 1)]
          /\ Len(b) - d <= Len(OpenPrefix)
          /\ \A i \in 1 .. d : i > Len(b) - Len(OpenPrefix) => b[i] # "<"
  BY HoldsFacts
<1> DEFINE r == TextFrom(b, d + 1)
<1>3. r \in Texts /\ Len(r) = Len(b) - d
  <2>1. d + 1 \in 1 .. Len(b) + 1 /\ Len(b) - (d + 1) + 1 = Len(b) - d
    BY <1>1
  <2> QED
    BY <2>1, TextFromFacts
<1>4. ASSUME NEW t \in Texts, NEW j \in Opens(b \o t)
      PROVE  d < j
  <2>1. Len(b \o t) = Len(b) + Len(t) /\ \A k \in 1 .. Len(b) : (b \o t)[k] = b[k]
    BY JoinFacts
  <2>2. j \in Nat \ {0} /\ Begins(b \o t, j)
    BY DEF Opens
  <2>3. SUFFICES ASSUME j <= d
                 PROVE  FALSE
    BY <1>1, <2>2
  <2>4. j \in 1 .. Len(b) /\ j \in 1 .. d
    BY <1>1, <2>2, <2>3
  <2>5. CASE j + Len(OpenPrefix) <= Len(b)
    <3>1. Begins(b, j)
      BY <2>2, <2>5, BeginsJoin
    <3> QED
      BY <2>4, <3>1 DEF Opens, InAttributes
  <2>6. CASE ~(j + Len(OpenPrefix) <= Len(b))
    <3>1. j > Len(b) - Len(OpenPrefix)
      BY <1>1, <2>4, <2>6
    <3>2. b[j] # "<"
      BY <1>2, <2>4, <3>1
    <3>3. 1 \in 1 .. Len(OpenPrefix) /\ j + 1 - 1 = j
      BY <1>1, <2>4
    <3>4. (b \o t)[j] = OpenPrefix[1]
      BY <2>2, <3>3 DEF Begins, Occurs
    <3> QED
      BY <2>1, <2>4, <3>2, <3>4, TagFacts
  <2> QED
    BY <2>5, <2>6
<1>5. ASSUME NEW t \in Texts
      PROVE  Answer("out", b \o t) = TextTo(b, d) \o Answer("out", r \o t)
  <2> DEFINE u == b \o t
  <2>1. u \in Texts /\ d \in 0 .. Len(u)
    BY <1>1, JoinFacts DEF Texts
  <2> HIDE DEF u
  <2>2. \A j \in Opens(u) : d < j
    BY <1>4 DEF u
  <2>3. Stripped[u] = TextTo(u, d) \o Stripped[TextFrom(u, d + 1)]
    BY <2>1, <2>2, OpenLater
  <2>4. TextTo(u, d) = TextTo(b, d) /\ TextFrom(u, d + 1) = r \o t
    BY StartOfJoin, RestOfJoin DEF u
  <2> QED
    BY <2>3, <2>4 DEF Answer, u
<1>6. Opens(r) = {}
  <2>1. \A i \in Nat \ {0} : i \in Opens(r) <=> d + i \in Opens(b)
    BY OpensRest
  <2>2. Opens(r) \subseteq Nat \ {0}
    BY DEF Opens
  <2> HIDE DEF r
  <2> QED
    BY <2>1, <2>2
<1> HIDE DEF r
<1>7. Settled("out", r)
  BY <1>2, <1>3, <1>6 DEF Settled
<1>8. /\ Filter("out", b).mode = "out" /\ Filter("out", b).buf = b
      /\ Holds(b).out = TextTo(b, d) /\ Holds(b).mode = "out" /\ Holds(b).buf = r
  BY <1>2 DEF r, Filter
<1>9. \E e \in 0 .. Len(b) : Holds(b).buf = TextFrom(b, e + 1)
  BY <1>8 DEF r
<1> QED
  BY <1>5, <1>7, <1>8, <1>9 DEF Fits

\* Where it stops inside a block, what is dropped is not.
LEMMA KeepsFits ==
    ASSUME NEW b \in Texts, Closes(b) = {}
    PROVE  Fits(Filter("in", b), KeepsTail(b))
<1>1. Len(b) \in Nat /\ Len(CloseTag) \in Nat \ {0} /\ CloseTag \in Texts
  BY TagFacts DEF Texts
<1>2. PICK d \in 0 .. Len(b) :
          /\ KeepsTail(b) = [out |-> <<>>, mode |-> "in", buf |-> TextFrom(b, d + 1)]
          /\ \A i \in 1 .. d : i + Len(CloseTag) - 1 <= Len(b)
  BY KeepsFacts
<1> DEFINE r == TextFrom(b, d + 1)
<1>3. r \in Texts
  BY <1>1, TextFromFacts
<1>4. ASSUME NEW t \in Texts, NEW j \in Closes(b \o t)
      PROVE  d < j
  <2>1. j \in Nat \ {0} /\ Occurs(CloseTag, b \o t, j)
    BY DEF Closes
  <2>2. SUFFICES ASSUME j <= d
                 PROVE  FALSE
    BY <1>1, <2>1
  <2>3. j \in 1 .. Len(b) /\ j \in 1 .. d
    BY <1>1, <2>1, <2>2
  <2>4. Occurs(CloseTag, b, j)
    BY <1>1, <1>2, <2>1, <2>3, OccursJoin
  <2> QED
    BY <2>3, <2>4 DEF Closes
<1>5. ASSUME NEW t \in Texts
      PROVE  Answer("in", b \o t) = <<>> \o Answer("in", r \o t)
  <2> DEFINE u == b \o t
  <2>1. u \in Texts /\ d \in 0 .. Len(u)
    BY <1>1, JoinFacts DEF Texts
  <2> HIDE DEF u
  <2>2. \A j \in Closes(u) : d < j
    BY <1>4 DEF u
  <2>3. Answer("in", u) = Answer("in", TextFrom(u, d + 1))
    BY <2>1, <2>2, CloseLater
  <2>4. TextFrom(u, d + 1) = r \o t
    BY RestOfJoin DEF u
  <2>5. Answer("in", r \o t) \in Texts
    BY <1>3, JoinFacts, AnswerTyped
  <2>6. <<>> \o Answer("in", r \o t) = Answer("in", r \o t)
    BY <2>5, JoinEmpty
  <2> QED
    BY <2>3, <2>4, <2>6 DEF u
<1>6. Closes(r) = {}
  <2>1. \A i \in Nat \ {0} : i \in Closes(r) <=> d + i \in Closes(b)
    BY ClosesRest
  <2>2. Closes(r) \subseteq Nat \ {0}
    BY DEF Closes
  <2> HIDE DEF r
  <2> QED
    BY <2>1, <2>2
<1> HIDE DEF r
<1>7. Settled("in", r)
  BY <1>6 DEF Settled
<1>8. /\ Filter("in", b).mode = "in" /\ Filter("in", b).buf = b
      /\ KeepsTail(b).out = <<>> /\ KeepsTail(b).mode = "in" /\ KeepsTail(b).buf = r
  BY <1>2 DEF r, Filter
<1>9. \E e \in 0 .. Len(b) : KeepsTail(b).buf = TextFrom(b, e + 1)
  BY <1>8 DEF r
<1> QED
  BY <1>5, <1>7, <1>8, <1>9 DEF Fits

\* A tag of the text is a tag of the text that goes on.
LEMMA NextRoundFits ==
    ASSUME NEW f \in Filters, ~Stops(f)
    PROVE  /\ \E e \in 0 .. Len(f.buf) : NextRound(f).buf = TextFrom(f.buf, e + 1)
           /\ \A t \in Texts : Answer(f.mode, f.buf \o t) =
                 (IF f.mode = "out" THEN BeforeOpen(f.buf) ELSE <<>>)
                     \o Answer(NextRound(f).mode, NextRound(f).buf \o t)
<1> DEFINE b == f.buf
<1>1. f.mode \in {"out", "in"} /\ b \in Texts
  BY DEF Filters
<1> HIDE DEF b
<1>2. Len(b) \in Nat
  BY <1>1 DEF Texts
<1>3. CASE f.mode = "out"
  <2>1. Opens(b) # {} /\ NextRound(f) = Filter("in", AfterOpen(b))
    BY <1>3 DEF Stops, NextRound, b
  <2>2. NextRound(f).mode = "in" /\ NextRound(f).buf = AfterOpen(b)
    BY <2>1 DEF Filter
  <2>3. \E e \in 0 .. Len(b) : AfterOpen(b) = TextFrom(b, e + 1)
    <3> DEFINE i == Earliest(Opens(b))
               e == Earliest(TagEnds(b, i))
    <3>1. i \in 1 .. Len(b) /\ e \in i + 1 .. Len(b) /\ AfterOpen(b) = TextFrom(b, e + 1)
      BY <1>1, <2>1, OpenParts
    <3> HIDE DEF i, e
    <3>2. e \in 0 .. Len(b)
      BY <1>2, <3>1
    <3> QED
      BY <3>1, <3>2
  <2>4. ASSUME NEW t \in Texts
        PROVE  Answer("out", b \o t) = BeforeOpen(b) \o Answer("in", AfterOpen(b) \o t)
    <3>1. /\ Opens(b \o t) # {} /\ BeforeOpen(b \o t) = BeforeOpen(b)
          /\ AfterOpen(b \o t) = AfterOpen(b) \o t
      BY <1>1, <2>1, OpenStays
    <3>2. b \o t \in Texts
      BY <1>1, JoinFacts
    <3>3. Stripped[b \o t] = BeforeOpen(b \o t) \o Answer("in", AfterOpen(b \o t))
      BY <3>1, <3>2, StrippedSolved
    <3> QED
      BY <3>1, <3>3 DEF Answer
  <2> QED
    BY <1>3, <2>2, <2>3, <2>4 DEF b
<1>4. CASE f.mode = "in"
  <2>1. Closes(b) # {} /\ NextRound(f) = Filter("out", AfterClose(b))
    BY <1>4 DEF Stops, NextRound, b
  <2>2. NextRound(f).mode = "out" /\ NextRound(f).buf = AfterClose(b)
    BY <2>1 DEF Filter
  <2>3. \E e \in 0 .. Len(b) : AfterClose(b) = TextFrom(b, e + 1)
    <3> DEFINE i == Earliest(Closes(b))
               e == i + Len(CloseTag) - 1
    <3>1. /\ i \in 1 .. Len(b) /\ i + Len(CloseTag) - 1 <= Len(b)
          /\ AfterClose(b) = TextFrom(b, i + Len(CloseTag))
      BY <1>1, <2>1, CloseParts
    <3> HIDE DEF i
    <3>2. e \in 0 .. Len(b) /\ e + 1 = i + Len(CloseTag)
      BY <1>2, <3>1, TagFacts
    <3> HIDE DEF e
    <3> QED
      BY <3>1, <3>2
  <2>4. ASSUME NEW t \in Texts
        PROVE  Answer("in", b \o t) = <<>> \o Answer("out", AfterClose(b) \o t)
    <3>1. Closes(b \o t) # {} /\ AfterClose(b \o t) = AfterClose(b) \o t
      BY <1>1, <2>1, CloseStays
    <3>2. Answer("in", b \o t) = Stripped[AfterClose(b) \o t]
      BY <3>1 DEF Answer
    <3>3. AfterClose(b) \o t \in Texts
      BY <1>1, <2>1, CloseShortens, JoinFacts
    <3>4. Stripped[AfterClose(b) \o t] \in Texts
      BY <3>3, StrippedSolved
    <3>5. <<>> \o Stripped[AfterClose(b) \o t] = Stripped[AfterClose(b) \o t]
      BY <3>4, JoinEmpty
    <3> QED
      BY <3>2, <3>5 DEF Answer
  <2> QED
    BY <1>4, <2>2, <2>3, <2>4 DEF b
<1> QED
  BY <1>1, <1>3, <1>4

\* A round in front of a fitting rest fits.
LEMMA RoundFits ==
    ASSUME NEW f \in Filters, ~Stops(f), Fits(NextRound(f), Feed[NextRound(f)])
    PROVE  Fits(f, Feed[f])
<1> DEFINE b == f.buf
           n == NextRound(f)
           rest == Feed[n]
           front == IF f.mode = "out" THEN BeforeOpen(b) ELSE <<>>
<1>1. f.mode \in {"out", "in"} /\ b \in Texts
  BY DEF Filters
<1>2. n \in Filters
  BY RoundFacts
<1>3. rest \in Outcomes
  BY <1>2, FeedSolved
<1>4. rest.out \in Texts /\ rest.mode \in {"out", "in"} /\ rest.buf \in Texts
  BY <1>3 DEF Outcomes
<1>5. front \in Texts
  <2>1. <<>> \in Texts
    BY DEF Texts
  <2>2. CASE f.mode = "out"
    <3>1. Opens(b) # {}
      BY <2>2 DEF Stops
    <3> HIDE DEF b
    <3>2. BeforeOpen(b) \in Texts
      BY <1>1, <3>1, OpenShortens
    <3> QED
      BY <2>2, <3>2
  <2> QED
    BY <2>1, <2>2
<1>6. Feed[f].out = front \o rest.out /\ Feed[f].mode = rest.mode /\ Feed[f].buf = rest.buf
  <2>1. Feed[f] = Round(f, Feed)
    BY FeedSolved
  <2>2. CASE f.mode = "out"
    <3>1. Opens(b) # {} /\ n = Filter("in", AfterOpen(b))
      BY <2>2 DEF Stops, NextRound
    <3>2. Feed[f] = [out |-> BeforeOpen(b) \o rest.out, mode |-> rest.mode, buf |-> rest.buf]
      BY <2>1, <2>2, <3>1 DEF Round
    <3> HIDE DEF rest, b
    <3> QED
      BY <2>2, <3>2
  <2>3. CASE f.mode = "in"
    <3>1. Closes(b) # {} /\ n = Filter("out", AfterClose(b))
      BY <2>3 DEF Stops, NextRound
    <3>2. Feed[f] = rest
      BY <2>1, <2>3, <3>1 DEF Round
    <3> HIDE DEF rest, b
    <3>3. <<>> \o rest.out = rest.out
      BY <1>4, JoinEmpty
    <3> QED
      BY <2>3, <3>2, <3>3
  <2> QED
    BY <1>1, <2>2, <2>3
<1>7. /\ \A t \in Texts : Answer(n.mode, n.buf \o t) = rest.out \o Answer(rest.mode, rest.buf \o t)
      /\ \E d \in 0 .. Len(n.buf) : rest.buf = TextFrom(n.buf, d + 1)
      /\ Settled(rest.mode, rest.buf)
  BY DEF Fits
<1>8. /\ \E e \in 0 .. Len(b) : n.buf = TextFrom(b, e + 1)
      /\ \A t \in Texts : Answer(f.mode, b \o t) = front \o Answer(n.mode, n.buf \o t)
  BY NextRoundFits
<1> HIDE DEF b, n, rest, front
<1>9. ASSUME NEW t \in Texts
      PROVE  Answer(f.mode, b \o t) = (front \o rest.out) \o Answer(rest.mode, rest.buf \o t)
  <2> DEFINE a == Answer(rest.mode, rest.buf \o t)
  <2>1. rest.buf \o t \in Texts
    BY <1>4, JoinFacts
  <2>2. a \in Texts
    BY <1>4, <2>1, AnswerTyped
  <2>3. Answer(f.mode, b \o t) = front \o (rest.out \o a)
    BY <1>7, <1>8
  <2> HIDE DEF a
  <2>4. (front \o rest.out) \o a = front \o (rest.out \o a)
    BY <1>4, <1>5, <2>2, JoinAssociates
  <2> QED
    BY <2>3, <2>4 DEF a
<1>10. \E d \in 0 .. Len(b) : rest.buf = TextFrom(b, d + 1)
  <2>1. PICK e \in 0 .. Len(b) : n.buf = TextFrom(b, e + 1)
    BY <1>8
  <2>2. PICK d \in 0 .. Len(n.buf) : rest.buf = TextFrom(n.buf, d + 1)
    BY <1>7
  <2>3. Len(b) \in Nat
    BY <1>1 DEF Texts
  <2>4. Len(n.buf) = Len(b) - e
    <3>1. e + 1 \in 1 .. Len(b) + 1 /\ Len(b) - (e + 1) + 1 = Len(b) - e
      BY <2>3
    <3> QED
      BY <1>1, <2>1, <3>1, TextFromFacts
  <2>5. d \in 0 .. Len(b) - e /\ e + d \in 0 .. Len(b)
    BY <2>2, <2>3, <2>4
  <2>6. rest.buf = TextFrom(b, e + d + 1)
    BY <1>1, <2>1, <2>2, <2>5, RestOfRest
  <2> QED
    BY <2>5, <2>6
<1> QED
  BY <1>6, <1>7, <1>9, <1>10 DEF Fits, b

\* However a text is cut, the filter goes on as if it had come at once.
LEMMA FeedFits ==
    ASSUME NEW f \in Filters, ~InAttributes(f.buf)
    PROVE  Fits(f, Feed[f])
<1> DEFINE Astray == {x \in Filters : ~InAttributes(x.buf) /\ ~Fits(x, Feed[x])}
           Lengths == {Len(x.buf) : x \in Astray}
<1>1. SUFFICES ASSUME Lengths # {}
               PROVE  FALSE
  OBVIOUS
<1>2. PICK n \in Lengths : \A k \in Lengths : n <= k
  <2>1. Lengths \subseteq Nat
    BY DEF Filters, Texts
  <2> HIDE DEF Lengths
  <2> QED
    BY <1>1, <2>1, LeastNumber
<1>3. PICK x \in Astray : n = Len(x.buf)
  BY <1>2
<1>4. /\ x \in Filters /\ ~InAttributes(x.buf) /\ ~Fits(x, Feed[x])
      /\ x.mode \in {"out", "in"} /\ x.buf \in Texts /\ x = Filter(x.mode, x.buf)
  BY <1>3 DEF Filters, Filter
<1> DEFINE b == x.buf
<1>5. CASE Stops(x)
  <2>1. Feed[x] = Round(x, Feed)
    BY <1>4, FeedSolved
  <2>2. CASE x.mode = "out"
    <3>1. Opens(b) = {} /\ Feed[x] = Holds(b)
      BY <1>5, <2>1, <2>2 DEF Stops, Round
    <3>2. Fits(Filter("out", b), Holds(b))
      BY <1>4, <3>1, HoldsFits
    <3> QED
      BY <1>4, <2>2, <3>1, <3>2
  <2>3. CASE x.mode = "in"
    <3>1. Closes(b) = {} /\ Feed[x] = KeepsTail(b)
      BY <1>5, <2>1, <2>3 DEF Stops, Round
    <3>2. Fits(Filter("in", b), KeepsTail(b))
      BY <1>4, <3>1, KeepsFits
    <3> QED
      BY <1>4, <2>3, <3>1, <3>2
  <2> QED
    BY <1>4, <2>2, <2>3
<1>6. CASE ~Stops(x)
  <2> DEFINE y == NextRound(x)
  <2>1. y \in Filters /\ Len(y.buf) < Len(b) /\ Len(y.buf) \in Nat /\ Len(b) \in Nat
    BY <1>4, <1>6, RoundFacts
  <2>2. \E e \in 0 .. Len(b) : y.buf = TextFrom(b, e + 1)
    BY <1>4, <1>6, NextRoundFits
  <2> HIDE DEF y
  <2>3. ~InAttributes(y.buf)
    BY <1>4, <2>2, AttributesRest
  <2>4. ~(n <= Len(y.buf))
    BY <1>3, <2>1
  <2>5. Fits(y, Feed[y])
    BY <1>2, <2>1, <2>3, <2>4
  <2> QED
    BY <1>4, <1>6, <2>5, RoundFits DEF y
<1> QED
  BY <1>5, <1>6

-----------------------------------------------------------------------------
(* The think-tag filter: the stream *)

\* s is sent and b is kept of g, and whatever follows the client is given what
\* it would have been given at once.
Follows(g, s, m, b) ==
    /\ \A t \in Texts : Stripped[g \o t] = s \o Answer(m, b \o t)
    /\ \E d \in 0 .. Len(g) : b = TextFrom(g, d + 1)
    /\ Settled(m, b)

\* The inductive invariant: a choice that runs follows its upstream, and one
\* that is over has been given the whole answer.
SseInv ==
    /\ mode \in [ChoiceIds -> {"out", "in"}]
    /\ buf \in [ChoiceIds -> Texts]
    /\ sent \in [ChoiceIds -> Texts]
    /\ given \in [ChoiceIds -> Texts]
    /\ cut \in [ChoiceIds -> BOOLEAN]
    /\ finished \in [ChoiceIds -> BOOLEAN]
    /\ \A c \in ChoiceIds : ~cut[c] =>
           IF finished[c] \/ stream \in {"done", "closed"}
           THEN sent[c] = Stripped[given[c]] /\ buf[c] = <<>>
           ELSE Follows(given[c], sent[c], mode[c], buf[c])

\* A delta that is fed keeps it so.
LEMMA FollowsOn ==
    ASSUME NEW g \in Texts, NEW s \in Texts, NEW m \in {"out", "in"}, NEW b \in Texts,
           NEW u \in Texts, Follows(g, s, m, b), ~InAttributes(g \o u)
    PROVE  LET r == Feed[Filter(m, b \o u)]
           IN  Follows(g \o u, s \o r.out, r.mode, r.buf)
<1> DEFINE f == Filter(m, b \o u)
           r == Feed[f]
<1>1. g \o u \in Texts /\ b \o u \in Texts
  BY JoinFacts
<1>2. f \in Filters /\ f.mode = m /\ f.buf = b \o u
  BY <1>1, FilterFacts
<1>3. r.out \in Texts /\ r.mode \in {"out", "in"} /\ r.buf \in Texts
  <2>1. r \in Outcomes
    BY <1>2, FeedSolved
  <2> HIDE DEF r
  <2> QED
    BY <2>1 DEF Outcomes
<1>4. PICK d \in 0 .. Len(g) : b = TextFrom(g, d + 1)
  BY DEF Follows
<1>5. Len(g) \in Nat /\ Len(g \o u) = Len(g) + Len(u) /\ Len(u) \in Nat
  BY JoinFacts DEF Texts
<1>6. b \o u = TextFrom(g \o u, d + 1) /\ d \in 0 .. Len(g \o u)
  <2>1. TextFrom(g \o u, d + 1) = TextFrom(g, d + 1) \o u
    BY RestOfJoin
  <2> QED
    BY <1>4, <1>5, <2>1
<1>7. ~InAttributes(b \o u)
  BY <1>1, <1>6, AttributesRest
<1>8. Fits(f, r)
  BY <1>2, <1>7, FeedFits
<1>9. /\ \A t \in Texts : Answer(m, (b \o u) \o t) = r.out \o Answer(r.mode, r.buf \o t)
      /\ \E e \in 0 .. Len(b \o u) : r.buf = TextFrom(b \o u, e + 1)
      /\ Settled(r.mode, r.buf)
  <2> HIDE DEF r
  <2> QED
    BY <1>2, <1>8 DEF Fits
<1> HIDE DEF r, f
<1>10. ASSUME NEW t \in Texts
       PROVE  Stripped[(g \o u) \o t] = (s \o r.out) \o Answer(r.mode, r.buf \o t)
  <2> DEFINE a == Answer(r.mode, r.buf \o t)
  <2>1. a \in Texts
    <3>1. r.buf \o t \in Texts
      BY <1>3, JoinFacts
    <3> QED
      BY <1>3, <3>1, AnswerTyped
  <2>2. (g \o u) \o t = g \o (u \o t) /\ (b \o u) \o t = b \o (u \o t) /\ u \o t \in Texts
    <3>1. (g \o u) \o t = g \o (u \o t)
      BY JoinAssociates
    <3>2. (b \o u) \o t = b \o (u \o t)
      BY JoinAssociates
    <3>3. u \o t \in Texts
      BY JoinFacts
    <3> QED
      BY <3>1, <3>2, <3>3
  <2>3. Stripped[g \o (u \o t)] = s \o Answer(m, b \o (u \o t))
    BY <2>2 DEF Follows
  <2>4. Answer(m, (b \o u) \o t) = r.out \o a
    BY <1>9
  <2> HIDE DEF a
  <2>5. (s \o r.out) \o a = s \o (r.out \o a)
    <3>1. \A x \in Texts, y \in Texts : (s \o x) \o y = s \o (x \o y)
      BY JoinAssociates
    <3>2. r.out \in Texts
      BY <1>3
    <3> QED
      BY ONLY <2>1, <3>1, <3>2
  <2> QED
    BY <2>2, <2>3, <2>4, <2>5 DEF a
<1>11. \E e \in 0 .. Len(g \o u) : r.buf = TextFrom(g \o u, e + 1)
  <2>1. PICK e \in 0 .. Len(b \o u) : r.buf = TextFrom(b \o u, e + 1)
    BY <1>9
  <2>2. Len(b \o u) = Len(g \o u) - d
    <3>1. d + 1 \in 1 .. Len(g \o u) + 1 /\ Len(g \o u) - (d + 1) + 1 = Len(g \o u) - d
      BY <1>5, <1>6
    <3> QED
      BY <1>1, <1>6, <3>1, TextFromFacts
  <2>3. e \in 0 .. Len(g \o u) - d /\ d + e \in 0 .. Len(g \o u)
    BY <1>5, <1>6, <2>1, <2>2
  <2>4. TextFrom(TextFrom(g \o u, d + 1), e + 1) = TextFrom(g \o u, d + e + 1)
    BY <1>1, <1>6, <2>3, RestOfRest
  <2> QED
    BY <1>6, <2>1, <2>3, <2>4
<1> QED
  BY <1>9, <1>10, <1>11 DEF Follows, r, f

\* s and the few characters of t are the answer to g.
Completes(g, s, t) ==
    /\ s \o t = Stripped[g]
    /\ t \in Texts /\ Len(t) <= Len(OpenPrefix)

\* What flush emits completes the answer.
LEMMA FollowsEnd ==
    ASSUME NEW g \in Texts, NEW s \in Texts, NEW m \in {"out", "in"}, NEW b \in Texts,
           Follows(g, s, m, b)
    PROVE  Completes(g, s, Flushed(m, b))
<1>1. <<>> \in Texts /\ g \o <<>> = g /\ b \o <<>> = b /\ Len(<<>>) = 0
  BY JoinEmpty
<1>2. Stripped[g] = s \o Answer(m, b)
  BY <1>1 DEF Follows
<1>3. Answer(m, b) = Flushed(m, b)
  <2>1. CASE m = "out"
    <3>1. Opens(b) = {}
      BY <2>1 DEF Follows, Settled
    <3>2. Stripped[b] = b
      BY <3>1, StrippedSolved
    <3> QED
      BY <2>1, <3>2 DEF Answer, Flushed
  <2>2. CASE m = "in"
    BY <2>2 DEF Follows, Settled, Answer, Flushed
  <2> QED
    BY <2>1, <2>2
<1>4. Flushed(m, b) \in Texts /\ Len(Flushed(m, b)) <= Len(OpenPrefix)
  <2>1. Len(OpenPrefix) \in Nat
    BY TagFacts
  <2>2. CASE m = "out"
    BY <2>2 DEF Follows, Settled, Flushed
  <2>3. CASE m = "in"
    BY <1>1, <2>1, <2>3 DEF Flushed
  <2> QED
    BY <2>2, <2>3
<1> QED
  BY <1>2, <1>3, <1>4 DEF Completes

\* A beginning occurs in front.
LEMMA FrontOccurs ==
    ASSUME NEW s \in Texts, NEW t \in Texts, Len(t) <= Len(OpenPrefix)
    PROVE  Occurs(s, s \o t, 1) /\ Len(s \o t) - Len(s) <= Len(OpenPrefix)
<1>1. Len(s) \in Nat /\ Len(t) \in Nat /\ Len(OpenPrefix) \in Nat
  BY TagFacts DEF Texts
<1>2. Len(s \o t) = Len(s) + Len(t) /\ \A k \in 1 .. Len(s) : (s \o t)[k] = s[k]
  BY JoinFacts
<1>3. 1 + Len(s) - 1 <= Len(s) + Len(t) /\ \A k \in 1 .. Len(s) : 1 + k - 1 = k
  BY <1>1
<1>4. Occurs(s, s \o t, 1)
  BY <1>2, <1>3 DEF Occurs
<1>5. Len(s) + Len(t) - Len(s) <= Len(OpenPrefix)
  BY <1>1
<1> QED
  BY <1>2, <1>4, <1>5

\* The invariant holds when the stream starts.
LEMMA SseStarts == SseInit => SseInv
<1> SUFFICES ASSUME SseInit
             PROVE  SseInv
  OBVIOUS
<1>1. <<>> \in Texts /\ Len(<<>>) = 0
  BY DEF Texts
<1>2. Follows(<<>>, <<>>, "out", <<>>)
  <2>1. ASSUME NEW t \in Texts
        PROVE  Stripped[<<>> \o t] = <<>> \o Answer("out", <<>> \o t)
    <3>1. Stripped[t] \in Texts /\ <<>> \o t = t
      BY StrippedSolved, JoinEmpty
    <3>2. <<>> \o Stripped[t] = Stripped[t]
      BY <3>1, JoinEmpty
    <3> QED
      BY <3>1, <3>2 DEF Answer
  <2>2. \E d \in 0 .. Len(<<>>) : <<>> = TextFrom(<<>>, d + 1)
    <3>1. <<>> = TextFrom(<<>>, 0 + 1) /\ 0 \in 0 .. Len(<<>>)
      BY <1>1, WholeAndNothing
    <3> QED
      BY <3>1
  <2>3. Settled("out", <<>>)
    <3>1. Opens(<<>>) = {}
      BY <1>1 DEF Opens
    <3> QED
      BY <1>1, <3>1, TagFacts DEF Settled
  <2> QED
    BY <2>1, <2>2, <2>3 DEF Follows
<1> QED
  BY <1>1, <1>2 DEF SseInit, SseInv

\* A data line keeps it, with and without the choice's finish_reason.
LEMMA DeltaKeeps ==
    ASSUME SseInv, NEW c \in ChoiceIds, NEW text \in Chunks \cup {<<>>}, NEW finish \in BOOLEAN,
           DeltaLine(c, text, finish)
    PROVE  SseInv'
<1> DEFINE m == mode[c]
           b == buf[c]
           g == given[c]
           fed == IF text = <<>> THEN [out |-> <<>>, mode |-> m, buf |-> b]
                                 ELSE Feed[Filter(m, b \o text)]
           last == IF finish THEN Flushed(fed.mode, fed.buf) ELSE <<>>
<1>1. /\ m \in {"out", "in"} /\ b \in Texts /\ sent[c] \in Texts /\ g \in Texts /\ text \in Texts
      /\ cut[c] \in BOOLEAN
  <2>1. <<>> \in Texts
    BY DEF Texts
  <2>2. text \in Texts
    BY <2>1, ThinkAssumption
  <2> QED
    BY <2>2 DEF SseInv
<1>2. <<>> \in Texts /\ g \o text \in Texts /\ b \o text \in Texts
  BY <1>1, JoinEmpty, JoinFacts
<1>3. fed.out \in Texts /\ fed.mode \in {"out", "in"} /\ fed.buf \in Texts
  <2>1. CASE text = <<>>
    <3>1. fed = [out |-> <<>>, mode |-> m, buf |-> b]
      BY <2>1
    <3> HIDE DEF fed, m, b
    <3> QED
      BY <1>1, <1>2, <3>1
  <2>2. CASE text # <<>>
    <3>1. fed = Feed[Filter(m, b \o text)]
      BY <2>2
    <3>2. Filter(m, b \o text) \in Filters
      BY <1>1, <1>2, FilterFacts
    <3> HIDE DEF fed, m, b
    <3>3. fed \in Outcomes
      BY <3>1, <3>2, FeedSolved
    <3> QED
      BY <3>3 DEF Outcomes
  <2> QED
    BY <2>1, <2>2
<1>4. /\ stream = "open" /\ ~finished[c]
      /\ mode' = [mode EXCEPT ![c] = fed.mode]
      /\ sent' = [sent EXCEPT ![c] = (sent[c] \o fed.out) \o last]
      /\ buf' = [buf EXCEPT ![c] = IF finish THEN <<>> ELSE fed.buf]
      /\ given' = [given EXCEPT ![c] = g \o text]
      /\ cut' = [cut EXCEPT ![c] = cut[c] \/ InAttributes(g \o text)]
      /\ finished' = [finished EXCEPT ![c] = finish]
      /\ stream' = stream
  BY DEF DeltaLine
<1>5. ASSUME ~cut[c], ~InAttributes(g \o text)
      PROVE  Follows(g \o text, sent[c] \o fed.out, fed.mode, fed.buf)
  <2>1. Follows(g, sent[c], m, b)
    BY <1>4, <1>5 DEF SseInv
  <2>2. CASE text = <<>>
    <3>1. g \o text = g /\ sent[c] \o <<>> = sent[c]
      BY <1>1, <2>2, JoinEmpty
    <3>2. fed.out = <<>> /\ fed.mode = m /\ fed.buf = b
      <4>1. fed = [out |-> <<>>, mode |-> m, buf |-> b]
        BY <2>2
      <4> HIDE DEF fed, m, b
      <4> QED
        BY <4>1
    <3> HIDE DEF fed, m, b, g
    <3> QED
      BY <2>1, <3>1, <3>2
  <2>3. CASE text # <<>>
    <3>1. fed = Feed[Filter(m, b \o text)]
      BY <2>3
    <3> HIDE DEF fed, m, b, g
    <3> QED
      BY <1>1, <1>5, <2>1, <3>1, FollowsOn
  <2> QED
    BY <2>2, <2>3
<1> HIDE DEF fed, m, b, g
<1>6. sent[c] \o fed.out \in Texts
  BY <1>1, <1>3, JoinFacts
<1>7. last \in Texts
  BY <1>2, <1>3 DEF Flushed
<1>8. (sent[c] \o fed.out) \o last \in Texts
  BY <1>6, <1>7, JoinFacts
<1> DEFINE kept == IF finish THEN <<>> ELSE fed.buf
           found == cut[c] \/ InAttributes(g \o text)
           given2 == g \o text
           sent2 == (sent[c] \o fed.out) \o last
           mode2 == fed.mode
<1>9. kept \in Texts /\ found \in BOOLEAN /\ given2 \in Texts /\ sent2 \in Texts /\ mode2 \in {"out", "in"}
  BY <1>1, <1>2, <1>3, <1>8
<1>10. ~found => IF finish THEN sent2 = Stripped[given2] /\ kept = <<>>
                 ELSE Follows(given2, sent2, mode2, kept)
  <2>1. SUFFICES ASSUME ~found
                 PROVE  IF finish THEN sent2 = Stripped[given2] /\ kept = <<>>
                        ELSE Follows(given2, sent2, mode2, kept)
    OBVIOUS
  <2>2. Follows(given2, sent[c] \o fed.out, fed.mode, fed.buf)
    BY <1>5, <2>1
  <2>3. CASE finish
    <3>1. last = Flushed(fed.mode, fed.buf) /\ kept = <<>>
      BY <2>3
    <3> HIDE DEF last
    <3>2. Completes(given2, sent[c] \o fed.out, Flushed(fed.mode, fed.buf))
      BY <1>3, <1>6, <1>9, <2>2, FollowsEnd
    <3>3. (sent[c] \o fed.out) \o Flushed(fed.mode, fed.buf) = Stripped[given2]
      BY <3>2 DEF Completes
    <3> QED
      BY <2>3, <3>1, <3>3
  <2>4. CASE ~finish
    <3>1. last = <<>> /\ kept = fed.buf
      BY <2>4
    <3> HIDE DEF last
    <3>2. (sent[c] \o fed.out) \o <<>> = sent[c] \o fed.out
      BY <1>6, JoinEmpty
    <3> QED
      BY <2>2, <2>4, <3>1, <3>2
  <2> QED
    BY <2>3, <2>4
<1>11. /\ stream = "open" /\ stream' = stream
       /\ mode' = [mode EXCEPT ![c] = mode2] /\ buf' = [buf EXCEPT ![c] = kept]
       /\ sent' = [sent EXCEPT ![c] = sent2] /\ given' = [given EXCEPT ![c] = given2]
       /\ cut' = [cut EXCEPT ![c] = found] /\ finished' = [finished EXCEPT ![c] = finish]
  BY <1>4
<1> HIDE DEF kept, found, given2, sent2, mode2
<1>12. /\ mode' \in [ChoiceIds -> {"out", "in"}] /\ buf' \in [ChoiceIds -> Texts]
       /\ sent' \in [ChoiceIds -> Texts] /\ given' \in [ChoiceIds -> Texts]
       /\ cut' \in [ChoiceIds -> BOOLEAN] /\ finished' \in [ChoiceIds -> BOOLEAN]
  BY <1>9, <1>11 DEF SseInv
<1>13. ASSUME NEW d \in ChoiceIds, ~cut'[d]
       PROVE  IF finished'[d] \/ stream' \in {"done", "closed"}
              THEN sent'[d] = Stripped[given'[d]] /\ buf'[d] = <<>>
              ELSE Follows(given'[d], sent'[d], mode'[d], buf'[d])
  <2>1. CASE d = c
    <3>1. /\ mode'[d] = mode2 /\ buf'[d] = kept /\ sent'[d] = sent2 /\ given'[d] = given2
          /\ cut'[d] = found /\ finished'[d] = finish
      BY <1>11, <2>1 DEF SseInv
    <3> QED
      BY <1>10, <1>11, <1>13, <3>1
  <2>2. CASE d # c
    <3>1. /\ mode'[d] = mode[d] /\ buf'[d] = buf[d] /\ sent'[d] = sent[d] /\ given'[d] = given[d]
          /\ cut'[d] = cut[d] /\ finished'[d] = finished[d]
      BY <1>11, <2>2 DEF SseInv
    <3>2. ~cut[d] => IF finished[d] \/ stream \in {"done", "closed"}
                     THEN sent[d] = Stripped[given[d]] /\ buf[d] = <<>>
                     ELSE Follows(given[d], sent[d], mode[d], buf[d])
      BY DEF SseInv
    <3> QED
      BY <1>11, <1>13, <3>1, <3>2
  <2> QED
    BY <2>1, <2>2
<1> QED
  BY <1>12, <1>13 DEF SseInv

\* The flush of all choices keeps it, also the second one that follows [DONE].
LEMMA FlushKeeps ==
    ASSUME SseInv, FlushesAll, stream' \in {"done", "closed"},
           UNCHANGED <<mode, given, cut, finished>>
    PROVE  SseInv'
<1>1. <<>> \in Texts
  BY DEF Texts
<1>2. ASSUME NEW c \in ChoiceIds
      PROVE  /\ mode[c] \in {"out", "in"} /\ buf[c] \in Texts /\ sent[c] \in Texts /\ given[c] \in Texts
             /\ Flushed(mode[c], buf[c]) \in Texts /\ sent[c] \o Flushed(mode[c], buf[c]) \in Texts
             /\ sent'[c] = sent[c] \o Flushed(mode[c], buf[c]) /\ buf'[c] = <<>>
  <2>1. mode[c] \in {"out", "in"} /\ buf[c] \in Texts /\ sent[c] \in Texts /\ given[c] \in Texts
    BY DEF SseInv
  <2>2. Flushed(mode[c], buf[c]) \in Texts
    BY <1>1, <2>1 DEF Flushed
  <2>3. sent[c] \o Flushed(mode[c], buf[c]) \in Texts
    BY <2>1, <2>2, JoinFacts
  <2> QED
    BY <2>1, <2>2, <2>3 DEF FlushesAll
<1>3. sent' \in [ChoiceIds -> Texts] /\ buf' \in [ChoiceIds -> Texts]
  BY <1>1, <1>2 DEF FlushesAll
<1>4. ASSUME NEW c \in ChoiceIds, ~cut[c]
      PROVE  sent'[c] = Stripped[given[c]]
  <2>1. CASE finished[c] \/ stream \in {"done", "closed"}
    <3>1. sent[c] = Stripped[given[c]] /\ buf[c] = <<>>
      BY <1>4, <2>1 DEF SseInv
    <3>2. Flushed(mode[c], buf[c]) = <<>>
      BY <3>1 DEF Flushed
    <3>3. sent[c] \o <<>> = sent[c]
      BY <1>2, JoinEmpty
    <3> QED
      BY <1>2, <3>1, <3>2, <3>3
  <2>2. CASE ~(finished[c] \/ stream \in {"done", "closed"})
    <3>1. Follows(given[c], sent[c], mode[c], buf[c])
      BY <1>4, <2>2 DEF SseInv
    <3>2. Completes(given[c], sent[c], Flushed(mode[c], buf[c]))
      BY <1>2, <3>1, FollowsEnd
    <3> QED
      BY <1>2, <3>2 DEF Completes
  <2> QED
    BY <2>1, <2>2
<1> QED
  BY <1>2, <1>3, <1>4 DEF SseInv

\* It is inductive.
LEMMA SseKeeps == SseInv /\ [SseNext]_sseVars => SseInv'
<1> SUFFICES ASSUME SseInv, [SseNext]_sseVars
             PROVE  SseInv'
  OBVIOUS
<1>1. CASE \E c \in ChoiceIds, text \in Chunks \cup {<<>>}, finish \in BOOLEAN : DeltaLine(c, text, finish)
  BY <1>1, DeltaKeeps
<1>2. CASE DoneLine
  BY <1>2, FlushKeeps DEF DoneLine
<1>3. CASE LinesEnd
  BY <1>3, FlushKeeps DEF LinesEnd
<1>4. CASE StreamBreaks
  BY <1>4 DEF StreamBreaks, SseInv
<1>5. CASE UNCHANGED sseVars
  BY <1>5 DEF sseVars, SseInv
<1> QED
  BY <1>1, <1>2, <1>3, <1>4, <1>5 DEF SseNext

\* StreamAsWhole for every tag, every text and any number of deltas and choices:
\* feed and flush give the client what is left of the whole text when its think
\* blocks are taken out at once, unless a delta ended in the attributes of a tag.
THEOREM StreamAlwaysAsWhole == SseSpec => []StreamAsWhole
<1>1. SseInv => StreamAsWhole
  BY DEF SseInv, StreamAsWhole
<1> QED
  BY <1>1, SseStarts, SseKeeps, PTL DEF SseSpec

\* HeldBackLittle for every tag: at any moment the client has a prefix of that
\* answer, and feed keeps no more of it back than "<" and the name.
THEOREM AlwaysHeldBackLittle == SseSpec => []HeldBackLittle
<1>1. SseInv => HeldBackLittle
  <2> SUFFICES ASSUME SseInv, NEW c \in ChoiceIds, ~cut[c]
               PROVE  /\ Occurs(sent[c], Stripped[given[c]], 1)
                      /\ Len(Stripped[given[c]]) - Len(sent[c]) <= Len(OpenPrefix)
    BY DEF HeldBackLittle
  <2>1. mode[c] \in {"out", "in"} /\ buf[c] \in Texts /\ sent[c] \in Texts /\ given[c] \in Texts
    BY DEF SseInv
  <2>2. CASE finished[c] \/ stream \in {"done", "closed"}
    <3>1. sent[c] = Stripped[given[c]]
      BY <2>2 DEF SseInv
    <3>2. sent[c] \o <<>> = sent[c] /\ <<>> \in Texts /\ Len(<<>>) = 0
      BY <2>1, JoinEmpty
    <3>3. Len(<<>>) <= Len(OpenPrefix)
      BY <3>2, TagFacts
    <3>4. Occurs(sent[c], sent[c] \o <<>>, 1) /\ Len(sent[c] \o <<>>) - Len(sent[c]) <= Len(OpenPrefix)
      BY <2>1, <3>2, <3>3, FrontOccurs
    <3> QED
      BY <3>1, <3>2, <3>4
  <2>3. CASE ~(finished[c] \/ stream \in {"done", "closed"})
    <3> DEFINE h == Flushed(mode[c], buf[c])
    <3>1. Follows(given[c], sent[c], mode[c], buf[c])
      BY <2>3 DEF SseInv
    <3>2. Completes(given[c], sent[c], h)
      BY <2>1, <3>1, FollowsEnd
    <3> HIDE DEF h
    <3>4. sent[c] \o h = Stripped[given[c]] /\ h \in Texts /\ Len(h) <= Len(OpenPrefix)
      BY <3>2 DEF Completes
    <3>3. Occurs(sent[c], sent[c] \o h, 1) /\ Len(sent[c] \o h) - Len(sent[c]) <= Len(OpenPrefix)
      BY <2>1, <3>4, FrontOccurs
    <3> QED
      BY <3>3, <3>4
  <2> QED
    BY <2>2, <2>3
<1> QED
  BY <1>1, SseStarts, SseKeeps, PTL DEF SseSpec
===============================================================================
