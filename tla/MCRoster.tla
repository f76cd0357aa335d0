------------------------------ MODULE MCRoster ------------------------------
EXTENDS Roster

CONSTANTS ra, rb, a1, a2, a3, us, de

Rec(id, kem, jur) == [id |-> id, kem |-> kem, jur |-> jur]
Good(a) == [by |-> a, good |-> TRUE]
Bad(a)  == [by |-> a, good |-> FALSE]
Signed(rec, sigs) == [record |-> rec, sigs |-> sigs]

MCConsortia == {[m |-> 2, n |-> <<a1, a2>>], [m |-> 1, n |-> <<a3>>],
                [m |-> 1, n |-> <<a1, a1>>], [m |-> 0, n |-> <<a1>>]}
MCDefault == [max |-> 1, window |-> 1, derived |-> TRUE]
MCRules == {MCDefault, [max |-> 2, window |-> 2, derived |-> FALSE]}
MCOffers ==
  {Signed(Rec(ra, ra, us), <<Good(a1), Good(a2)>>),
   Signed(Rec(ra, ra, de), <<Good(a1), Good(a1)>>),
   Signed(Rec(rb, rb, us), <<Good(a2), Bad(a2), Good(a1)>>),
   Signed(Rec(rb, rb, us), <<Bad(a2), Good(a1), Good(a2)>>),
   Signed(Rec(rb, ra, de), <<Good(a1), Good(a2)>>),
   Signed(Rec(rb, rb, de), <<Good(a3)>>)}
Ent(rec, adm) == [record |-> rec, admission |-> adm]
Two == Signed(Rec(ra, ra, us), <<Good(a2), Good(a1)>>)
\* One file is as an operator may leave it who edits an entry and not its admission.
MCFiles ==
  {{Ent(Rec(ra, ra, de), Two)},
   {Ent(Rec(ra, ra, us), Two)}, {Ent(Rec(ra, ra, us), NoAdmission)}}
=============================================================================
