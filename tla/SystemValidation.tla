--------------------------- MODULE SystemValidation ---------------------------
(* systeminfo/validator.go: whether the target system has what the source    *)
(* system has.  A system has at most one dogu of each simple name, in some   *)
(* namespace, and at most one version of each component.                     *)

CONSTANTS
    Names,          \* simple names of dogus
    Nginx,          \* the dogu nginx, which exists in single-node systems only
    Official,       \* the namespace "official"
    Installed,      \* what may be installed under a name: [namespace, version]
    Components,     \* names of components
    Versions,       \* their versions
    Absent,         \* nothing is installed
    ExcludedDogus   \* simple names from the configuration

ASSUME ValidationAssumption ==
    /\ Nginx \in Names /\ ExcludedDogus \subseteq Names
    /\ Absent \notin Installed /\ Absent \notin Versions

Systems == [dogus : [Names -> Installed \cup {Absent}],
            components : [Components -> Versions \cup {Absent}]]

NamesIn(system) == {d \in Names : system.dogus[d] # Absent}

\* The dogus of the source system that validateDogus looks up in the target system.
ToValidate(source) ==
    {d \in NamesIn(source) \ ExcludedDogus :
        ~(d = Nginx /\ source.dogus[d].namespace = Official)}

\* Mutation: a dogu that is not installed is not missed.
MissingIgnored(source, target) == {}

Missing(source, target) == ToValidate(source) \ NamesIn(target)

OtherVersion(source, target) ==
    {d \in ToValidate(source) \cap NamesIn(target) :
        source.dogus[d].version # target.dogus[d].version}

\* What is left in imDoguMap when all dogus of the source system were removed
\* from it, and the excluded ones; nginx never is.
Extra(source, target) == (NamesIn(target) \ ToValidate(source)) \ ExcludedDogus

\* A component that only the target system has is no error.
ComponentsFit(source, target) ==
    \A c \in Components :
        source.components[c] # Absent => target.components[c] = source.components[c]

\* Namespaces are not compared.
IsValid(source, target) ==
    /\ Missing(source, target) = {}
    /\ OtherVersion(source, target) = {}
    /\ Extra(source, target) = {}
    /\ ComponentsFit(source, target)

=============================================================================
