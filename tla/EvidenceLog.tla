----------------------------- MODULE EvidenceLog -----------------------------
(***************************************************************************)
(* The hash-chained log of one mandate: append_event, get_chain and        *)
(* verify_chain over rows ordered by created_at, a reading of the wall     *)
(* clock.                                                                  *)
(*                                                                         *)
(* Hashes are perfect: a payload is its own hash, and chain_hash is the    *)
(* sequence of the payload hashes that led to it, the genesis hash being   *)
(* the empty one.  Writers hold the write lock for a whole transaction     *)
(* (Firewall has the one that does not), so one transaction is enough.     *)
(*                                                                         *)
(* A definition marked "Fault" is a plausible mistake in the code that the *)
(* definition after it models.                                             *)
(***************************************************************************)
EXTENDS Integers, Sequences, FiniteSets

CONSTANTS
    Payloads,
    Advances,    \* what may pass on the wall clock between two readings
    MaxRows,     \* bound: rows in the table
    MaxTampers,  \* bound: rows changed behind the program's back
    Start,       \* first reading of the clock
    MaxTime      \* bound: last reading of the clock

ASSUME LogAssumption ==
    /\ Advances \subseteq Int
    /\ MaxRows \in Nat /\ MaxTampers \in Nat
    /\ MaxTime \in Nat /\ Start \in 0..MaxTime

VARIABLES
    rows,       \* evidence_events of the mandate, in the order of insertion
    pending,    \* rows flushed by the open transaction
    clock,      \* the last reading of the wall clock
    truth,      \* history: the payloads that were committed
    damaged,    \* history: the tampering met a row that had a successor
    tampers

logVars == <<rows, pending>>
vars == <<rows, pending, clock, truth, damaged, tampers>>

Genesis == <<>>
ChainHash(prev, hash) == Append(prev, hash)

Row == [at: 0..MaxTime, payload: Payloads, prev: Seq(Payloads), hash: Payloads,
        chain: Seq(Payloads)]

-----------------------------------------------------------------------------
(* append_event *)

Visible == rows \o pending

\* Fault: the tail is read without the transaction's own rows.
LastCommitted == {i \in 1..Len(rows) : \A k \in 1..Len(rows) : rows[k].at <= rows[i].at}

\* ORDER BY created_at DESC LIMIT 1: of equal times the database takes any.
Last == {i \in 1..Len(Visible) :
            \A k \in 1..Len(Visible) : Visible[k].at <= Visible[i].at}

NewRow(p, prev, at) ==
    [at |-> at, payload |-> p, prev |-> prev, hash |-> p,
     chain |-> ChainHash(prev, p)]

\* Insert and flush, in the transaction that is open.
AppendEvent(p) ==
    /\ Len(Visible) < MaxRows
    /\ \E d \in Advances : clock' = clock + d /\ clock' \in 0..MaxTime
    /\ \/ Last = {} /\ pending' = Append(pending, NewRow(p, Genesis, clock'))
       \/ \E i \in Last :
            pending' = Append(pending, NewRow(p, Visible[i].chain, clock'))
    /\ UNCHANGED <<rows, truth, damaged, tampers>>

\* Fault: the events stay pending and are inserted once more.
CommitAndKeep ==
    /\ pending # <<>>
    /\ rows' = Visible
    /\ truth' = truth \o [i \in 1..Len(pending) |-> pending[i].payload]
    /\ UNCHANGED <<pending, clock, damaged, tampers>>

Commit ==
    /\ pending # <<>>
    /\ rows' = Visible
    /\ truth' = truth \o [i \in 1..Len(pending) |-> pending[i].payload]
    /\ pending' = <<>>
    /\ UNCHANGED <<clock, damaged, tampers>>

Rollback ==
    /\ pending # <<>>
    /\ pending' = <<>>
    /\ UNCHANGED <<rows, clock, truth, damaged, tampers>>

-----------------------------------------------------------------------------
(* get_chain and verify_chain *)

\* The orders in which ORDER BY created_at may return the committed rows.
Readings ==
    LET positions == 1..Len(rows) IN
    {f \in [positions -> positions] :
        \A i, k \in positions : i < k => /\ f[i] # f[k]
                                         /\ rows[f[i]].at <= rows[f[k]].at}

\* Fault: the stored payload hash is trusted.
VerifyStoredHashes(f) ==
    \A i \in DOMAIN f :
        rows[f[i]].chain = ChainHash(IF i = 1 THEN Genesis ELSE rows[f[i - 1]].chain,
                                     rows[f[i]].hash)

Verify(f) ==
    \A i \in DOMAIN f :
        /\ rows[f[i]].hash = rows[f[i]].payload
        /\ rows[f[i]].chain = ChainHash(IF i = 1 THEN Genesis ELSE rows[f[i - 1]].chain,
                                        rows[f[i]].hash)

-----------------------------------------------------------------------------
(* A row changed by other means than append_event; between transactions. *)

Tampering ==
    /\ pending = <<>>
    /\ tampers < MaxTampers
    /\ tampers' = tampers + 1
    /\ UNCHANGED <<pending, clock, truth>>

AlterPayload(i, p) ==
    /\ Tampering
    /\ p # rows[i].payload
    /\ rows' = [rows EXCEPT ![i].payload = p]
    /\ damaged' = TRUE

\* The row is made consistent in itself again.
RewriteRow(i, p) ==
    /\ Tampering
    /\ p # rows[i].payload
    /\ rows' = [rows EXCEPT ![i].payload = p, ![i].hash = p,
                            ![i].chain = ChainHash(rows[i].prev, p)]
    /\ damaged' = (i < Len(rows))

DeleteRow(i) ==
    /\ Tampering
    /\ rows' = SubSeq(rows, 1, i - 1) \o SubSeq(rows, i + 1, Len(rows))
    /\ damaged' = (i < Len(rows))

Init ==
    /\ rows = <<>> /\ pending = <<>>
    /\ clock = Start
    /\ truth = <<>>
    /\ damaged = FALSE
    /\ tampers = 0

Tamper ==
    \E i \in 1..Len(rows) :
        \/ DeleteRow(i)
        \/ \E p \in Payloads : AlterPayload(i, p) \/ RewriteRow(i, p)

Next == (\E p \in Payloads : AppendEvent(p)) \/ Commit \/ Rollback \/ Tamper

Spec == Init /\ [][Next]_vars

-----------------------------------------------------------------------------
(* Properties *)

\* Every variable has its type, and the table its bound.
TypeOK ==
    /\ rows \in Seq(Row) /\ pending \in Seq(Row)
    /\ Len(rows) + Len(pending) <= MaxRows
    /\ clock \in 0..MaxTime
    /\ truth \in Seq(Payloads)
    /\ damaged \in BOOLEAN
    /\ tampers \in 0..MaxTampers

\* While the clock runs forward and nobody touches the table, the evidence view
\* verifies, and shows what was committed in the order it was committed, through
\* rolled back transactions and several events in one transaction.
HonestVerifies ==
    tampers = 0 =>
        \A f \in Readings : /\ Verify(f)
                            /\ [i \in DOMAIN f |-> rows[f[i]].payload] = truth

\* A past event that was altered or deleted shows, and no later append hides it.
DamageShows == damaged => \A f \in Readings : ~Verify(f)

\* evidence/log.py, verify_chain: "False means tampering".
FalseMeansTampering == (\E f \in Readings : ~Verify(f)) => tampers > 0
=============================================================================
