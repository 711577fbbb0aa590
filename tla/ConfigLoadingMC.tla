-------------------------- MODULE ConfigLoadingMC ---------------------------
(***************************************************************************)
(* File systems for TLC.  Every configuration gives a setting of its own, and *)
(* some of them one that they share.                                        *)
(***************************************************************************)
EXTENDS ConfigLoadingProperties

CONSTANTS a, b, c, d, strict

Four  == {a, b, c, d}
Settings == Config \cup {strict}

Giving(givers) == [x \in Config |-> {x} \cup (IF x \in givers THEN {strict} ELSE {})]

Distinct(n) == {s \in BoundedSeq(Config, n) : IsInjective(s)}

System(selections, entries, bases, unreadable, authored) ==
    [selection : selections, entry : entries, bases : bases,
     unreadable : unreadable, authored : authored]

\* Every way three files extend up to two others, any of them unreadable.
AnyThree ==
    System({"file"}, {a},
           {[x \in Config |-> IF x = d THEN <<>> ELSE s[x]] :
               s \in [{a, b, c} -> BoundedSeq({a, b, c, Missing}, 2)]},
           SUBSET {a, b, c}, {Giving({b, c})})
    \cup
    System({"file", "directory"}, {Missing}, {[x \in Config |-> <<>>]}, {{}}, {Giving({b})})

\* An entry with three different bases, which extend one or two of the files,
\* and any of which give the shared setting.
AnyFour ==
    System({"file"}, {a},
           {[x \in Config |-> IF x = a THEN s ELSE IF x = b THEN t ELSE u[x]] :
               s \in Distinct(3), t \in Distinct(2), u \in [{c, d} -> Distinct(1)]},
           {{}}, {Giving(givers) : givers \in SUBSET {b, c, d}})

ThreeOrFour == AnyThree \cup AnyFour
=============================================================================
