--------------------------- MODULE LaunchRecords ---------------------------
(***************************************************************************)
(* The protected launch-record store: one JSON file per launch, keyed by   *)
(* socket and nonce, opened with O_EXCL, then written, and replaced        *)
(* atomically.  A record is authority over the session it names: no        *)
(* managed kill, teardown or cleanup happens without it.                   *)
(*                                                                         *)
(* Time is abstract.  A record is "expired" once its retention has passed: *)
(* ten minutes for a pending one, seven days for a finalized one.          *)
(***************************************************************************)
EXTENDS TmuxHost

CONSTANT Listers   \* clients that enumerate a user's sessions

VARIABLES
  record,      \* the record of each launch
  expired,     \* launches whose record has outlived its retention
  seen,        \* the nonces in a lister's list-sessions answer
  listing      \* listers between that answer and their collection

storeVars == <<record, expired, seen, listing>>

Absent == [status |-> "absent", id |-> 0, created |-> 0]
\* A file that has been opened and not, or not wholly, been written: not JSON.
Torn == [status |-> "torn", id |-> 0, created |-> 0]
Pending == [status |-> "pending", id |-> 0, created |-> 0]

\* Mutant of Finalized: a status no reader of the record knows.
FinalizedMisspelt(e) == [status |-> "final", id |-> e.id, created |-> e.created]

Finalized(e) == [status |-> "finalized", id |-> e.id, created |-> e.created]

RecordShape ==
  [status : {"absent", "torn", "pending", "finalized"}, id : Nat, created : Nat]

StoreTypeOK ==
  /\ record \in [Launches -> RecordShape]
  /\ expired \subseteq Launches
  /\ seen \in [Listers -> SUBSET (Launches \cup {Foreign})]
  /\ listing \subseteq Listers

StoreInit ==
  /\ record = [l \in Launches |-> Absent]
  /\ expired = {}
  /\ seen = [g \in Listers |-> {}]
  /\ listing = {}

-----------------------------------------------------------------------------

\* `read_verified_record`: the finalized record of this very session.
Verified(e) ==
  /\ e.nonce \in Launches
  /\ record[e.nonce] = Finalized(e)

\* `record_is_absent`: a missing file, told apart from one that cannot be read.
IsAbsent(e) == e.nonce \in Launches /\ record[e.nonce] = Absent

\* Unlinking a record that is already gone changes nothing.
Unlink(l) == record' = [record EXCEPT ![l] = Absent]

-----------------------------------------------------------------------------
(* Enumeration and garbage collection.                                     *)

\* `list-sessions`, or the probe that proves the server absent: then no row.
ListSessions(g) ==
  /\ g \notin listing
  /\ listing' = listing \cup {g}
  /\ seen' = [seen EXCEPT ![g] = {r.nonce : r \in Rows}]
  /\ UNCHANGED <<record, expired>>

\* A pane query or the whole enumeration fails: nothing is collected.
ListFails(g) ==
  /\ g \in listing
  /\ listing' = listing \ {g}
  /\ seen' = [seen EXCEPT ![g] = {}]
  /\ UNCHANGED <<record, expired>>

\* Mutant of Collectable: the listed sessions are not consulted.
CollectableByAge(g) == {l \in expired : record[l] \notin {Absent, Torn}}

\* Mutant of Collectable: only pending records are collected.
CollectablePending(g) ==
  {l \in expired : record[l].status = "pending" /\ l \notin seen[g]}

\* The expired records no listed session carries, in the scope of one user.  A
\* file that cannot be read is passed over, whatever its age.
Collectable(g) == {l \in expired : record[l] # Torn /\ l \notin seen[g]}

\* `garbage_collect_records`, for a store that one pass of 1,024 records covers.
Collect(g) ==
  /\ g \in listing
  /\ record' = [l \in Launches |-> IF l \in Collectable(g) THEN Absent
                                                           ELSE record[l]]
  /\ listing' = listing \ {g}
  /\ seen' = [seen EXCEPT ![g] = {}]
  /\ UNCHANGED expired

\* A record outlives its retention.  No launch and no enumeration takes as long:
\* every command in them has a timeout of seconds.
Expires(l, busy) ==
  /\ l \notin expired
  /\ record[l] # Absent
  /\ ~busy
  /\ listing = {}
  /\ expired' = expired \cup {l}
  /\ UNCHANGED <<record, seen, listing>>

=============================================================================
