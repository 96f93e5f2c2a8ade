----------------------------- MODULE SampleStore -----------------------------
(***************************************************************************)
(* SampleAssetRegistry (src/Source/Sampling/SampleAsset.cpp): the decoded  *)
(* samples in memory by UUID, under a budget that a running total keeps.   *)
(* A store is [entries: UUID -> bytes, used].                              *)
(***************************************************************************)
EXTENDS Integers

CONSTANT Budget  \* budgetBytes_

ASSUME StoreAssumption == Budget \in Nat

EmptyStore == [entries |-> [a \in {} |-> 0], used |-> 0]

Holds(store, a) == a \in DOMAIN store.entries
HeldBytes(store, a) == IF Holds(store, a) THEN store.entries[a] ELSE 0

\* Mutant of Fits: a sample is compared with the whole budget.
FitsAlone(store, a, bytes) == bytes <= Budget

\* publish() accepts a sample, in the place of the one it replaces.
Fits(store, a, bytes) == bytes <= Budget - (store.used - HeldBytes(store, a))

Published(store, a, bytes) ==
  [entries |-> [x \in DOMAIN store.entries \cup {a} |->
                  IF x = a THEN bytes ELSE store.entries[x]],
   used |-> store.used - HeldBytes(store, a) + bytes]

\* erase()
Erased(store, a) ==
  [entries |-> [x \in DOMAIN store.entries \ {a} |-> store.entries[x]],
   used |-> store.used - HeldBytes(store, a)]

\* Mutant of RolledBack: what the sample replaced is not put back.
RolledBackToNothing(store, a, bytes) == Erased(Published(store, a, bytes), a)

\* What the commit functions leave of a sample they published for a project that
\* then refuses it: what it replaced, or nothing.
RolledBack(store, a, bytes) ==
  LET published == Published(store, a, bytes)
  IN IF Holds(store, a) THEN Published(published, a, store.entries[a])
                        ELSE Erased(published, a)
=============================================================================
