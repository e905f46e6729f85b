------------------------------- MODULE ApiKeys -------------------------------
(***************************************************************************)
(* An API key's record in Redis and the requests that use and end it.      *)
(* Every one of them reads the record and writes it back, or deletes it,   *)
(* an await later: validate to count the use, revoke to set the status.    *)
(* Keys share nothing but the index, in which each has its own entry.      *)
(***************************************************************************)
EXTENDS Naturals

CONSTANTS
  Keys,       \* key ids, each created once
  Requests,   \* requests with a key, or about one
  NoRecord    \* what GET answers for a key that does not exist

ApiKeysAssumption == NoRecord \notin [status : {"active", "revoked"}, usageCount : Nat]

VARIABLES
  made,       \* progress of create()
  record,     \* Redis: the stored record of each key
  entries,    \* Redis: how often the index lists each key
  op,         \* what each request does
  keyOf,      \* the key it is about
  pc,         \* its next step
  seen,       \* the record it has read
  accepted,   \* history: validations each key has passed
  ended,      \* history: revocations and deletions that were done
  overlapped  \* history: keys that two requests had in hand together

vars == <<made, record, entries, op, keyOf, pc, seen, accepted, ended, overlapped>>

Record == [status : {"active", "revoked"}, usageCount : Nat]

TypeOK ==
  /\ made \in [Keys -> {"no", "saved", "yes"}]
  /\ record \in [Keys -> Record \cup {NoRecord}]
  /\ entries \in [Keys -> Nat]
  /\ op \in [Requests -> {"validate", "revoke", "delete"}]
  /\ keyOf \in [Requests -> Keys]
  /\ pc \in [Requests -> {"idle", "write", "unlist", "done"}]
  /\ seen \in [Requests -> Record \cup {NoRecord}]
  /\ accepted \in [Keys -> Nat]
  /\ ended \in [Keys -> SUBSET {"revoked", "deleted"}]
  /\ overlapped \subseteq Keys

Init ==
  /\ made = [k \in Keys |-> "no"]
  /\ record = [k \in Keys |-> NoRecord]
  /\ entries = [k \in Keys |-> 0]
  /\ op \in [Requests -> {"validate", "revoke", "delete"}]
  /\ keyOf \in [Requests -> Keys]
  /\ pc = [q \in Requests |-> "idle"]
  /\ seen = [q \in Requests |-> NoRecord]
  /\ accepted = [k \in Keys |-> 0]
  /\ ended = [k \in Keys |-> {}]
  /\ overlapped = {}

Goto(q, step) == pc' = [pc EXCEPT ![q] = step]

SaveNew(k) ==
  /\ made[k] = "no"
  /\ made' = [made EXCEPT ![k] = "saved"]
  /\ record' = [record EXCEPT ![k] = [status |-> "active", usageCount |-> 0]]
  /\ UNCHANGED <<entries, op, keyOf, pc, seen, accepted, ended, overlapped>>

\* LREM and LPUSH; only then does anyone learn the key.
ListNew(k) ==
  /\ made[k] = "saved"
  /\ made' = [made EXCEPT ![k] = "yes"]
  /\ entries' = [entries EXCEPT ![k] = 1]
  /\ UNCHANGED <<record, op, keyOf, pc, seen, accepted, ended, overlapped>>

InHand(q) == pc[q] \in {"write", "unlist"}

\* Mutation of Usable: the status is not looked at.
UsableWhatever(q, stored) == stored # NoRecord

\* validate() refuses a key that is not active; the others only need it to exist.
Usable(q, stored) ==
  stored # NoRecord /\ (op[q] = "validate" => stored.status = "active")

GetStored(q) ==
  LET k == keyOf[q] IN
  /\ pc[q] = "idle" /\ made[k] = "yes"
  /\ seen' = [seen EXCEPT ![q] = record[k]]
  /\ Goto(q, IF Usable(q, record[k]) THEN "write" ELSE "done")
  /\ overlapped' = IF \E p \in Requests : keyOf[p] = k /\ InHand(p)
                   THEN overlapped \cup {k} ELSE overlapped
  /\ UNCHANGED <<made, record, entries, op, keyOf, accepted, ended>>

\* Mutation of CountUse: the count is not carried over.
CountUseAnew(q) ==
  /\ op[q] = "validate" /\ pc[q] = "write"
  /\ record' = [record EXCEPT ![keyOf[q]] = [seen[q] EXCEPT !.usageCount = 1]]
  /\ accepted' = [accepted EXCEPT ![keyOf[q]] = @ + 1]
  /\ Goto(q, "done")
  /\ UNCHANGED <<made, entries, op, keyOf, seen, ended, overlapped>>

CountUse(q) ==
  /\ op[q] = "validate" /\ pc[q] = "write"
  /\ record' = [record EXCEPT ![keyOf[q]] = [seen[q] EXCEPT !.usageCount = @ + 1]]
  /\ accepted' = [accepted EXCEPT ![keyOf[q]] = @ + 1]
  /\ Goto(q, "done")
  /\ UNCHANGED <<made, entries, op, keyOf, seen, ended, overlapped>>

Revoke(q) ==
  /\ op[q] = "revoke" /\ pc[q] = "write"
  /\ record' = [record EXCEPT ![keyOf[q]] = [seen[q] EXCEPT !.status = "revoked"]]
  /\ ended' = [ended EXCEPT ![keyOf[q]] = @ \cup {"revoked"}]
  /\ Goto(q, "done")
  /\ UNCHANGED <<made, entries, op, keyOf, seen, accepted, overlapped>>

Delete(q) ==
  /\ op[q] = "delete" /\ pc[q] = "write"
  /\ record' = [record EXCEPT ![keyOf[q]] = NoRecord]
  /\ ended' = [ended EXCEPT ![keyOf[q]] = @ \cup {"deleted"}]
  /\ Goto(q, "unlist")
  /\ UNCHANGED <<made, entries, op, keyOf, seen, accepted, overlapped>>

\* Mutation of Unlist: one entry is counted off, whether it is there or not.
UnlistCountsDown(q) ==
  /\ pc[q] = "unlist"
  /\ entries' = [entries EXCEPT ![keyOf[q]] = @ - 1]
  /\ Goto(q, "done")
  /\ UNCHANGED <<made, record, op, keyOf, seen, accepted, ended, overlapped>>

Unlist(q) ==
  /\ pc[q] = "unlist"
  /\ entries' = [entries EXCEPT ![keyOf[q]] = 0]
  /\ Goto(q, "done")
  /\ UNCHANGED <<made, record, op, keyOf, seen, accepted, ended, overlapped>>

Next ==
  \/ \E k \in Keys : SaveNew(k) \/ ListNew(k)
  \/ \E q \in Requests : GetStored(q) \/ CountUse(q) \/ Revoke(q) \/ Delete(q) \/ Unlist(q)

Spec == Init /\ [][Next]_vars

-----------------------------------------------------------------------------
Status(k) == IF record[k] = NoRecord THEN "deleted" ELSE record[k].status

\* A key that was revoked or deleted is never accepted again, unless a request that
\* had read it before wrote it back (two requests had it in hand together).
EndedIsRefused ==
  [][\A k \in Keys : ended[k] # {} /\ k \notin overlapped => accepted'[k] = accepted[k]]_vars

\* When no two requests have the key in hand together every use is counted, the key
\* ends as it was told to and the index lists it as long as it exists.
SerialUseIsExact ==
  \A k \in Keys : LET busy == \E q \in Requests : keyOf[q] = k /\ InHand(q) IN
    made[k] = "yes" /\ k \notin overlapped /\ ~busy =>
      /\ Status(k) = IF "deleted" \in ended[k] THEN "deleted"
                     ELSE IF "revoked" \in ended[k] THEN "revoked" ELSE "active"
      /\ record[k] # NoRecord => record[k].usageCount = accepted[k]
      /\ entries[k] = IF record[k] = NoRecord THEN 0 ELSE 1

-----------------------------------------------------------------------------
(* The inductive invariant of ApiKeys, with what it adds to TypeOK *)

\* Nothing has happened to a key that nobody knows yet.
NewKeys ==
  \A k \in Keys : made[k] # "yes" =>
     /\ ended[k] = {} /\ accepted[k] = 0 /\ entries[k] = 0
     /\ made[k] = "saved" => record[k] = [status |-> "active", usageCount |-> 0]
     /\ \A q \in Requests : keyOf[q] = k => pc[q] = "idle"

\* A request alone with its key still holds what is stored.
OneInHand ==
  /\ \A q \in Requests : pc[q] = "unlist" => op[q] = "delete"
  /\ \A q \in Requests : pc[q] = "write" => Usable(q, seen[q])
  /\ \A q \in Requests : keyOf[q] \notin overlapped =>
       /\ InHand(q) => \A p \in Requests : keyOf[p] = keyOf[q] /\ InHand(p) => p = q
       /\ pc[q] = "write" => seen[q] = record[keyOf[q]]
       /\ pc[q] = "unlist" => record[keyOf[q]] = NoRecord

\* The record, before the index has followed.
RecordIsExact ==
  \A k \in Keys : made[k] = "yes" /\ k \notin overlapped =>
     /\ Status(k) = IF "deleted" \in ended[k] THEN "deleted"
                    ELSE IF "revoked" \in ended[k] THEN "revoked" ELSE "active"
     /\ record[k] # NoRecord => record[k].usageCount = accepted[k]
     /\ \/ entries[k] = IF record[k] = NoRecord THEN 0 ELSE 1
        \/ \E q \in Requests : keyOf[q] = k /\ pc[q] = "unlist"

IInv == TypeOK /\ NewKeys /\ OneInHand /\ RecordIsExact
=============================================================================
