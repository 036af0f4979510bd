---------------------------- MODULE MCKeyRegistry ----------------------------
EXTENDS KeyRegistry, TLC

\* One server: all slots share its chains.
OneServer == [r \in Requests |-> CHOOSE s \in Servers : TRUE]
SlotSymmetry == Permutations(Requests)

\* The did.json on the issuer's domain, which still lists the first key alone.
FirstKeyAlone == {Snapshot({0}, {0})}
=============================================================================
