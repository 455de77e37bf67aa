------------------------- MODULE RegistryLifecycle --------------------------
(***************************************************************************)
(* What the definition registry promises: an identity, once indexed, shows *)
(* a history of receipts that only grows, one state of the lifecycle at a  *)
(* time, and a bootstrap shows all of its new identities at once.  One     *)
(* atomic step per operation: no files, locks or crashes.                  *)
(***************************************************************************)
EXTENDS Naturals, Sequences

CONSTANTS Identities, Authors, Publishable, Lifecycle

VARIABLE visible    \* visible[i]: authors of the receipts a reader of i sees

Init == visible = [i \in Identities |-> <<>>]

\* The identities of S are indexed together, as candidates.
Index(S, author) ==
    /\ S # {}
    /\ \A i \in S : visible[i] = <<>>
    /\ visible' = [i \in Identities |-> IF i \in S THEN <<author>> ELSE visible[i]]

\* One lifecycle transition; only a publishable identity is ever published.
Advance(i, author) ==
    /\ visible[i] # <<>>
    /\ Len(visible[i]) < Len(Lifecycle)
    /\ Lifecycle[Len(visible[i]) + 1] = "published" => i \in Publishable
    /\ visible' = [visible EXCEPT ![i] = Append(@, author)]

Next ==
    \E author \in Authors :
        \/ \E S \in SUBSET Identities : Index(S, author)
        \/ \E i \in Identities : Advance(i, author)

Spec == Init /\ [][Next]_visible
=============================================================================
