-------------------------------- MODULE MCMulib --------------------------------
(* Three parts of mulib that share nothing, each on its own: the linked     *)
(* queue and list, the access manager, and strings with their clients.  The *)
(* first state chooses the part that is used.                               *)
EXTENDS MuQueue, MuAccessMgr, MCStrClients

VARIABLE used

mulibVars == <<used, queueVars, vars, strVars>>

MulibInit ==
  /\ used \in {"queue", "access", "strings"}
  /\ QueueInit /\ Init /\ StrClientsInit
  /\ used = "strings" \/ client = "url"

QueueUsed == used = "queue" /\ QueueNext /\ UNCHANGED <<used, vars, strVars>>
AccessUsed == used = "access" /\ Next /\ UNCHANGED <<used, queueVars, strVars>>
StringsUsed == used = "strings" /\ StrClientsNext /\ UNCHANGED <<used, queueVars, vars>>

\* The client that has read its message stops; nothing else may.
Terminating == client = "message" /\ step = "done" /\ UNCHANGED mulibVars

MulibNext == QueueUsed \/ AccessUsed \/ StringsUsed \/ Terminating

MulibSpec == MulibInit /\ [][MulibNext]_mulibVars
FairMulibSpec == MulibSpec /\ CallsReturn
================================================================================
