------------------------------ MODULE RowLocks ------------------------------
(***************************************************************************)
(* The row locks of PostgreSQL, the database under the backend, as far as   *)
(* the code in boards/services/cards.py relies on them.  A lock mode is a   *)
(* number, chosen so that the four modes' conflict table is one comparison: *)
(* two transactions may hold modes m and n on one row iff m + n < 5.        *)
(*                                                                          *)
(*     FOR KEY SHARE 1   FOR SHARE 2   FOR NO KEY UPDATE 3   FOR UPDATE 4   *)
(*                                                                          *)
(* A transaction that locks a row twice holds the stronger mode; locks are  *)
(* released together when it ends, or back to a savepoint.                  *)
(***************************************************************************)
EXTENDS Naturals

CONSTANT Procs          \* the transactions (one per request in flight)

VARIABLE held           \* held[p][r]: the mode p holds on row r, None if none

None        == 0
KeyShare    == 1
Share       == 2
NoKeyUpdate == 3
Update      == 4
Modes       == None .. Update

Compatible(m, n) == m + n < 5

Stronger(m, n) == IF m < n THEN n ELSE m

\* No other transaction holds row r in a mode that conflicts with m.
Grantable(p, r, m) == \A q \in Procs \ {p} : Compatible(held[q][r], m)

\* What a transaction's locks become when it takes m on r, and when it
\* releases every row outside the set kept.
WithLock(locks, r, m) == [locks EXCEPT ![r] = Stronger(@, m)]
OnlyOn(locks, kept)   == [r \in DOMAIN locks |-> IF r \in kept THEN locks[r] ELSE None]

Take(p, r, m)      == /\ Grantable(p, r, m)
                      /\ held' = [held EXCEPT ![p] = WithLock(@, r, m)]
Release(p, kept)   == held' = [held EXCEPT ![p] = OnlyOn(@, kept)]
=============================================================================
