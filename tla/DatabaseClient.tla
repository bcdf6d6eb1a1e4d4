--------------------------- MODULE DatabaseClient ----------------------------
(***************************************************************************)
(* Calls of query and transaction over the connection pool                 *)
(* (src/db/client.ts).  A call asks the pool for a connection and probes   *)
(* it; while the database wakes up both may fail and are repeated after a  *)
(* pause.  Only then the call's own SQL is sent, and whatever happens to   *)
(* it, it is not sent again.  closeDatabase forgets the pool and ends it;  *)
(* the next call to ask, a paused one too, opens another.                  *)
(*                                                                         *)
(* External: the pool of the pg library, which hands out at most MaxPool   *)
(* connections, hands out none once it is being ended, and has ended when  *)
(* all of them are back; and Postgres, for which the connection may be     *)
(* lost before or after a statement took effect.                           *)
(*                                                                         *)
(* What a call writes is one effect.  The callback of a transaction is one *)
(* step: its statements take effect with COMMIT alone, and none of the     *)
(* callbacks of this repository goes on after a statement that failed.     *)
(***************************************************************************)
EXTENDS Integers, FiniteSets

CONSTANTS
  Queries, Transactions,   (* the calls, of query and of transaction         *)
  MaxPool,                 (* max of the pool: 3                             *)
  Pauses,                  (* the length of WAKE_RETRY_DELAYS_MS: 4          *)
  MaxPools                 (* bound: how many pools are opened               *)

ASSUME ClientAssumption ==
  /\ Queries \cap Transactions = {}
  /\ MaxPool \in Nat \ {0} /\ Pauses \in Nat /\ MaxPools \in Nat

Calls == Queries \cup Transactions

VARIABLES
  pool,      (* the pool of the module, or 0                                 *)
  opened,    (* how many pools were opened: their numbers are 1..opened      *)
  ending,    (* the pools that were told to end                              *)
  cAt,       (* per call, the await it stands at                             *)
  from,      (* the pool it asked, or 0                                      *)
  pauses,    (* attempt of readyClient                                       *)
  applied,   (* how often its writes took effect                             *)
  unsure     (* history: the connection was lost while its SQL was under way *)

clientVars == <<pool, opened, ending, cAt, from, pauses, applied, unsure>>

Held == {"probe", "sql", "commit", "rollback"}
Over == {"returned", "threw"}

(* The connections of a pool that are in use. *)
InUse(q) == {c \in Calls : from[c] = q /\ cAt[c] \in Held}

ClientInit ==
  /\ pool = 0 /\ opened = 0 /\ ending = {}
  /\ cAt = [c \in Calls |-> "idle"]
  /\ from = [c \in Calls |-> 0]
  /\ pauses = [c \in Calls |-> 0]
  /\ applied = [c \in Calls |-> 0]
  /\ unsure = [c \in Calls |-> FALSE]

Move(c, await) == cAt' = [cAt EXCEPT ![c] = await]

Give(c) == from' = [from EXCEPT ![c] = 0]

-----------------------------------------------------------------------------
(* readyClient *)

(* database().connect(), at first and after each pause. *)
AskPool(c) ==
  /\ cAt[c] \in {"idle", "paused"}
  /\ IF pool # 0
     THEN UNCHANGED <<pool, opened>>
     ELSE opened < MaxPools /\ opened' = opened + 1 /\ pool' = opened + 1
  /\ from' = [from EXCEPT ![c] = pool']
  /\ Move(c, "connect")
  /\ UNCHANGED <<ending, pauses, applied, unsure>>

Connected(c) ==
  /\ cAt[c] = "connect"
  /\ from[c] \notin ending
  /\ Cardinality(InUse(from[c])) < MaxPool
  /\ Move(c, "probe")
  /\ UNCHANGED <<pool, opened, ending, from, pauses, applied, unsure>>

(* The connection or the probe fails, for reasons that may pass or not, or *)
(* the pool does not answer in time: the connection is destroyed.          *)
NotReady(c) ==
  /\ cAt[c] \in {"connect", "probe"}
  /\ Give(c)
  /\ \/ /\ pauses[c] < Pauses
        /\ pauses' = [pauses EXCEPT ![c] = @ + 1]
        /\ Move(c, "paused")
     \/ Move(c, "threw") /\ UNCHANGED pauses
  /\ UNCHANGED <<pool, opened, ending, applied, unsure>>

Probed(c) ==
  /\ cAt[c] = "probe"
  /\ Move(c, "sql")
  /\ UNCHANGED <<pool, opened, ending, from, pauses, applied, unsure>>

-----------------------------------------------------------------------------
(* The call's own SQL. *)

Apply(c) == applied' = [applied EXCEPT ![c] = @ + 1]

(* query: one statement, which is a transaction of its own. *)
Answer(c) ==
  /\ c \in Queries /\ cAt[c] = "sql"
  /\ Apply(c)
  /\ Give(c) /\ Move(c, "returned")
  /\ UNCHANGED <<pool, opened, ending, pauses, unsure>>

Refuse(c) ==
  /\ c \in Queries /\ cAt[c] = "sql"
  /\ Give(c) /\ Move(c, "threw")
  /\ UNCHANGED <<pool, opened, ending, pauses, applied, unsure>>

LoseAnswer_Repeated(c) ==
  /\ c \in Queries /\ cAt[c] = "sql"
  /\ unsure' = [unsure EXCEPT ![c] = TRUE]
  /\ Apply(c) \/ UNCHANGED applied
  /\ Give(c) /\ Move(c, "paused")
  /\ UNCHANGED <<pool, opened, ending, pauses>>

LoseAnswer(c) ==
  /\ c \in Queries /\ cAt[c] = "sql"
  /\ unsure' = [unsure EXCEPT ![c] = TRUE]
  /\ Apply(c) \/ UNCHANGED applied
  /\ Give(c) /\ Move(c, "threw")
  /\ UNCHANGED <<pool, opened, ending, pauses>>

(* transaction: BEGIN and the callback, which may throw; *)
Work(c) ==
  /\ c \in Transactions /\ cAt[c] = "sql"
  /\ Move(c, "commit") \/ Move(c, "rollback")
  /\ UNCHANGED <<pool, opened, ending, from, pauses, applied, unsure>>

(* COMMIT, *)
Commit(c) ==
  /\ cAt[c] = "commit"
  /\ Apply(c)
  /\ Give(c) /\ Move(c, "returned")
  /\ UNCHANGED <<pool, opened, ending, pauses, unsure>>

(* which may be refused, or whose answer may be lost; *)
CommitFails(c) ==
  /\ cAt[c] = "commit"
  /\ \/ UNCHANGED <<applied, unsure>>
     \/ /\ unsure' = [unsure EXCEPT ![c] = TRUE]
        /\ Apply(c) \/ UNCHANGED applied
  /\ Move(c, "rollback")
  /\ UNCHANGED <<pool, opened, ending, from, pauses>>

(* ROLLBACK, whose own failure is passed over: the first error is thrown   *)
(* and the connection destroyed.                                           *)
Rollback(c) ==
  /\ cAt[c] = "rollback"
  /\ Give(c) /\ Move(c, "threw")
  /\ UNCHANGED <<pool, opened, ending, pauses, applied, unsure>>

-----------------------------------------------------------------------------
CloseDatabase ==
  /\ pool # 0
  /\ ending' = ending \cup {pool}
  /\ pool' = 0
  /\ UNCHANGED <<opened, cAt, from, pauses, applied, unsure>>

ClientNext ==
  \/ \E c \in Calls :
       \/ AskPool(c) \/ Connected(c) \/ NotReady(c) \/ Probed(c)
       \/ Answer(c) \/ Refuse(c) \/ LoseAnswer(c)
       \/ Work(c) \/ Commit(c) \/ CommitFails(c) \/ Rollback(c)
  \/ CloseDatabase

ClientSpec == ClientInit /\ [][ClientNext]_clientVars

-----------------------------------------------------------------------------
ClientTypeOK ==
  /\ opened \in 0..MaxPools /\ pool \in 0..opened /\ ending \subseteq 1..opened
  /\ cAt \in [Calls -> {"idle", "paused", "connect"} \cup Held \cup Over]
  /\ from \in [Calls -> 0..opened]
  /\ pauses \in [Calls -> 0..Pauses]
  /\ applied \in [Calls -> Nat] /\ unsure \in [Calls -> BOOLEAN]

(* "A lost write or COMMIT response is never replayed" (db/client.ts:31):  *)
(* a call that returned has written once; one that threw has written       *)
(* nothing, or, when the connection was lost under its SQL, at most once - *)
(* through every number of wake-up attempts and closings of the pool.      *)
(* And it has given back its connection, so that a pool that was told to   *)
(* end does end when the calls are over, and no call asks such a pool.     *)
WrittenOnce ==
  \A c \in Calls :
    /\ cAt[c] = "returned" => applied[c] = 1
    /\ cAt[c] # "returned" => applied[c] = 0 \/ (unsure[c] /\ applied[c] = 1)
    /\ cAt[c] \in Over => from[c] = 0
    /\ pool \notin ending
==============================================================================
