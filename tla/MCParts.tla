------------------------------- MODULE MCParts -------------------------------
(***************************************************************************)
(* The parts of the repository that share no state with the hub's          *)
(* processes nor with one another, checked in one run: a behaviour is of   *)
(* one part, and the others stay in their initial states.                  *)
(***************************************************************************)
EXTENDS LoginLockout, TrayHub, ThinkStripper, FrontDoor, UsageLog, Ratchets, E2eRouting, Installer

VARIABLE part

TheTag == <<"t">>

SomeChunks == {<<"<">>, <<"<", "t">>, <<"<", "t", ">", "x">>, <<"t", ">">>, <<"/", "t", ">">>,
               <<"<", "/", "t", ">">>, <<"x">>, <<"<", "t", " ">>, <<">">>}

OneOfEach == [v \in Visits |-> IF v = "pc" THEN "desktop" ELSE "phone"]

SomeCases ==
    {<<s, "beside">> : s \in {"comment", "doc_refs", "docs", "runtime_write", "usage_track"}}
    \cup {<<s, "test">> : s \in {"static", "structure"}}
    \cup {<<s, "copy">> : s \in {"conventions", "dead_code", "instruction"}}

\* Maps of two surfaces, of one, with a name used twice and with no rules.
Surface(name, claims, selectors) ==
    [name |-> name, sound |-> TRUE, claims |-> claims, selectors |-> selectors]

UsualMap ==
    [readable |-> TRUE,
     rules    |-> <<[tier |-> "static", covers |-> {"icon"}],
                    [tier |-> "full", covers |-> {"board", "chat", "icon", "sheet", "module"}],
                    [tier |-> "none", covers |-> {"script", "toml"}]>>,
     entries  |-> <<Surface("b", {"board", "icon"}, {".b"}), Surface("c", {"chat"}, {".c"})>>,
     sheets   |-> {"sheet"}]

SomeMaps ==
    [n \in {"usual", "one surface", "name twice", "no rules"} |->
        CASE n = "usual" -> UsualMap
          [] n = "one surface" -> [UsualMap EXCEPT !.entries = <<UsualMap.entries[1]>>]
          [] n = "name twice" ->
                 [UsualMap EXCEPT !.entries = <<UsualMap.entries[1], Surface("b", {"chat"}, {".c"})>>]
          [] n = "no rules" -> [UsualMap EXCEPT !.rules = <<>>]]

SomeSelectors == [r \in SheetRules |-> CASE r = "rb" -> {".b"} [] r = "rc" -> {".c"} [] OTHER -> {Wide}]

\* The other parts stay as they are.
OnlyMoves(p) ==
    /\ UNCHANGED part
    /\ IF p = "lockout" THEN TRUE ELSE UNCHANGED lockoutVars
    /\ IF p = "tray" THEN TRUE ELSE UNCHANGED trayVars
    /\ IF p = "sse" THEN TRUE ELSE UNCHANGED sseVars
    /\ IF p = "door" THEN TRUE ELSE UNCHANGED doorVars
    /\ IF p = "usage" THEN TRUE ELSE UNCHANGED usageVars
    /\ IF p = "ratchets" THEN TRUE ELSE UNCHANGED ratchetVars
    /\ IF p = "routing" THEN TRUE ELSE UNCHANGED routingVars
    /\ IF p = "installer" THEN TRUE ELSE UNCHANGED installVars

PartsInit ==
    /\ part \in {"lockout", "tray", "sse", "door", "usage", "ratchets", "routing", "installer"}
    /\ LockoutInit /\ TrayInit /\ SseInit /\ DoorInit /\ UsageInit
    /\ RatchetInit /\ (part # "ratchets" => stage = "docs")
    /\ RoutingInit /\ (part # "routing" => fleet = "usual")
    /\ InstallerInit /\ (part # "installer" => digests /\ ~flat)

PartsNext ==
    \/ part = "lockout" /\ LockoutNext /\ OnlyMoves("lockout")
    \/ part = "tray" /\ TrayNext /\ OnlyMoves("tray")
    \/ part = "sse" /\ SseNext /\ OnlyMoves("sse")
    \/ part = "door" /\ DoorNext /\ OnlyMoves("door")
    \/ part = "usage" /\ UsageNext /\ OnlyMoves("usage")
    \/ part = "ratchets" /\ RatchetNext /\ OnlyMoves("ratchets")
    \/ part = "routing" /\ RoutingNext /\ OnlyMoves("routing")
    \/ part = "installer" /\ InstallerNext /\ OnlyMoves("installer")

allVars == <<part, lockoutVars, trayVars, sseVars, doorVars, usageVars, ratchetVars, routingVars, installVars>>

\* Time passes for the lock-out: in the other parts Ticks changes nothing.
PartsSpec == PartsInit /\ [][PartsNext]_allVars /\ WF_lockoutVars(Ticks)
=============================================================================
