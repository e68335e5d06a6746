--------------------------- MODULE MCVolumeMigration ---------------------------
(* Values for TLC: a source system with or without nginx, in a namespace of  *)
(* its own or not, and target systems that differ from it in any way.        *)
EXTENDS VolumeMigration, TLC

CONSTANTS cas, ldap, nginx, official, itz, postfix, v1, v2, operator

MCNames == {cas, ldap, nginx, postfix}
MCInstalled == [namespace : {official, itz}, version : {v1, v2}]
MCComponents == {operator}
MCVersions == {v1, v2}
MCBackup == {cas, ldap}

One(n) == [namespace |-> n, version |-> v1]

SystemOf(c, l, n, o) ==
    [dogus |-> (cas :> c) @@ (ldap :> l) @@ (nginx :> n) @@ (postfix :> One(official)),
     components |-> (operator :> o)]

MCSources == {SystemOf(One(official), One(official), n, v1) : n \in {One(official), One(itz), Absent}}

MCTargets ==
    {SystemOf(c, l, n, o) :
        c \in MCInstalled \cup {Absent}, l \in {One(official), Absent},
        n \in {One(official), Absent}, o \in {v1, Absent}}

MCSizes == {(cas :> c) @@ (ldap :> l) @@ (nginx :> 1) @@ (postfix :> 1) : c \in 1 .. 2, l \in 1 .. 2}

MCLandscapes == [source : MCSources, target : MCTargets, exported : MCSizes, volumes : MCSizes]

=============================================================================
