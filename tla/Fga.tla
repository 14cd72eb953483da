--------------------------------- MODULE Fga ---------------------------------
(***************************************************************************)
(* pkg/fga: the services' clients of OpenFGA.  Each client looks the store *)
(* up by its name when its service starts, creates one if there is none,   *)
(* and works with the store it found until it is started again.            *)
(***************************************************************************)
EXTENDS Naturals, FiniteSets

CONSTANTS FgaClients   \* services that hold a client

VARIABLES stores,      \* stores created so far under the name, oldest first: 1..stores
          fgaClient,   \* where each client is in New, and the store it has
          tuples,      \* relationship tuples of each store
          granted,     \* history: tuples whose writing was answered with success
          asked        \* history: tuples asked for and not since removed with success

fgaVars == <<stores, fgaClient, tuples, granted, asked>>

MaxStores == Cardinality(FgaClients)   \* a client creates a store at most when there is none

Tuple(user, relation, object) == [user |-> user, relation |-> relation, object |-> object]

FgaTypeOK ==
    /\ stores \in 0..MaxStores
    /\ \A c \in FgaClients :
         /\ fgaClient[c].pc \in {"down", "creating", "pinning", "up"}
         /\ fgaClient[c].store \in 0..stores
         /\ fgaClient[c].pc \in {"pinning", "up"} => fgaClient[c].store > 0
    /\ DOMAIN tuples = 1..MaxStores /\ granted \subseteq asked

Down == [pc |-> "down", store |-> 0]

FgaInit ==
    /\ stores = 0 /\ fgaClient = [c \in FgaClients |-> Down]
    /\ tuples = [i \in 1..MaxStores |-> {}] /\ granted = {} /\ asked = {}

(* ensureStore, the listing: the first store of the name is taken.         *)
FindStore(c) ==
    /\ fgaClient[c].pc = "down"
    /\ fgaClient' = [fgaClient EXCEPT ![c] =
          IF stores > 0 THEN [pc |-> "pinning", store |-> 1] ELSE [pc |-> "creating", store |-> 0]]
    /\ UNCHANGED <<stores, tuples, granted, asked>>

(* ensureStore, the creation: names need not be unique.                    *)
CreateStore(c) ==
    /\ fgaClient[c].pc = "creating"
    /\ stores' = stores + 1
    /\ fgaClient' = [fgaClient EXCEPT ![c] = [pc |-> "pinning", store |-> stores + 1]]
    /\ UNCHANGED <<tuples, granted, asked>>

(* latestModelID, or writeModel in a store without one: every model is the *)
(* same text, whichever is pinned.                                         *)
PinModel(c) ==
    /\ fgaClient[c].pc = "pinning"
    /\ fgaClient' = [fgaClient EXCEPT ![c].pc = "up"]
    /\ UNCHANGED <<stores, tuples, granted, asked>>

(* The service starts again, and so does New.                              *)
RestartClient(c) ==
    /\ fgaClient[c].pc = "up"
    /\ fgaClient' = [fgaClient EXCEPT ![c] = Down]
    /\ UNCHANGED <<stores, tuples, granted, asked>>

(* New.                                                                    *)
Bootstrap(c) == FindStore(c) \/ CreateStore(c) \/ PinModel(c)

Ready(c) == fgaClient[c].pc = "up"

(* Client.Read: the tuples on an object.                                   *)
FgaRead(c, object) == {t \in tuples[fgaClient[c].store] : t.object = object}

(* The relation that implies this one in CommerceModel, if there is one.   *)
Above(relation) == IF relation = "staff" THEN "owner" ELSE relation

(* Client.Check under CommerceModel: the staff of a shop are the users     *)
(* named so and its owner; every other relation is what the tuples say.    *)
FgaCheck(c, user, relation, object) ==
    \E t \in FgaRead(c, object) :
        t.user = user /\ t.relation \in {relation, Above(relation)}

(* Client.Write of a tuple, and of others whose fate nobody is told.  A    *)
(* tuple that is there already counts as written (IsAlreadyExists); an     *)
(* error leaves it written or not.                                         *)
FgaWrite(c, also, t) ==
    /\ \E new \in SUBSET (also \cup {t}) :
         /\ tuples' = [tuples EXCEPT ![fgaClient[c].store] = @ \cup new]
         /\ granted' \in {granted} \cup (IF t \in new THEN {granted \cup {t}} ELSE {})
    /\ asked' = asked \cup also \cup {t}
    /\ UNCHANGED <<stores, fgaClient>>

(* Mutant: the deletion is not waited for.                                 *)
FgaDeleteLost(c, t) ==
    /\ granted' = granted \ {t} /\ asked' = asked \ {t}
    /\ \E gone \in SUBSET {t} : tuples' = [tuples EXCEPT ![fgaClient[c].store] = @ \ gone]
    /\ UNCHANGED <<stores, fgaClient>>

(* Client.Delete; a tuple that is gone counts as deleted (IsNotFound).     *)
FgaDelete(c, t) ==
    /\ granted' = granted \ {t}
    /\ \E gone \in SUBSET {t} :
         /\ tuples' = [tuples EXCEPT ![fgaClient[c].store] = @ \ gone]
         /\ asked' \in {asked} \cup (IF gone = {t} THEN {asked \ {t}} ELSE {})
    /\ UNCHANGED <<stores, fgaClient>>

(* Both clients have found the same store.                                 *)
SameStore(c, d) == Ready(c) /\ Ready(d) /\ fgaClient[c].store = fgaClient[d].store

-----------------------------------------------------------------------------
(* Unless two services have created a store each, a grant that was         *)
(* answered is in force for every service; between clients that found the  *)
(* same store one that was withdrawn is not, through failing calls and     *)
(* restarts of either (New, Write, Delete, Check).                         *)
GrantsInForce(writer, reader, relation) ==
    /\ stores = 1 /\ Ready(reader) =>
         \A t \in granted : t.relation \in {relation, Above(relation)} => FgaCheck(reader, t.user, relation, t.object)
    /\ SameStore(writer, reader) =>
         \A t \in tuples[fgaClient[reader].store] : t.relation = relation => t \in asked
=============================================================================
