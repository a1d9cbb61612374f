------------------------------ MODULE DrawOrder ------------------------------
(* What the draw list of a renderer promises: a sequence of paths, each    *)
(* there once, that are drawn from the first to the last.                  *)
EXTENDS Sequences, SequencesExt

CONSTANT Paths

VARIABLE order

OrderInit == order = <<>>

AddAtEnd(p) == ~Contains(order, p) /\ order' = Append(order, p)

TakeOut(p) ==
    \E i \in DOMAIN order : order[i] = p /\ order' = RemoveAt(order, i)

ToEnd(p) ==
    \E i \in DOMAIN order :
        order[i] = p /\ order' = Append(RemoveAt(order, i), p)

ToStart(p) ==
    \E i \in DOMAIN order :
        order[i] = p /\ order' = <<p>> \o RemoveAt(order, i)

OrderNext ==
    /\ order' # order
    /\ \E p \in Paths : AddAtEnd(p) \/ TakeOut(p) \/ ToEnd(p) \/ ToStart(p)

OrderSpec == OrderInit /\ [][OrderNext]_order

=============================================================================
