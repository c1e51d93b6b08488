------------------------------ MODULE MCRunSync ------------------------------
(* RunSync in two situations: two handlers with requests of any kind, where *)
(* the second, being interchangeable, starts only while the first is busy;  *)
(* or three of which one makes a checklist, one adds to it and one checks   *)
(* an item, while a client that has the run follows the updates.            *)
EXTENDS RunSync

CONSTANTS h1, h2, h3, Situations

ASSUME SituationsAssumption == Situations \subseteq {"two", "newList"}

VARIABLE situation

ThreeHandlers == {h1, h2, h3}

OneItemAndNone == <<1, 0>>
TwoItemsAndNone == <<2, 0>>

MakesAndChecks ==
    \/ DuplicateList(h1, 1)
    \/ \E c \in DOMAIN Lists \ {2} :
        \/ AddItem(h2, c)
        \/ \E i \in DOMAIN Lists[c].items : CheckItem(h3, c, i)
    \/ \E h \in Handlers : WriteRun(h) \/ RecordEvent(h) \/ RereadRun(h) \/ PublishRun(h)
    \/ ReceiveUpdate

Ready == {h1} \cup (IF hdl[h1] # Idle \/ hdl[h2] # Idle THEN {h2} ELSE {})

TwoRequests ==
    /\ (\E h \in Ready : Serve(h)) \/ Follow
    /\ budget'.requests >= MaxRequests - 2

MCInit ==
    /\ Init
    /\ situation \in Situations
    /\ situation = "newList" => incremental /\ client # NoRun

MCNext ==
    /\ situation' = situation
    /\ \/ situation = "two" /\ TwoRequests
       \/ situation = "newList" /\ MakesAndChecks

MCSpec == MCInit /\ [][MCNext]_<<vars, situation>>
=============================================================================
