------------------------------ MODULE MCImportJob ------------------------------
(* Values for TLC.  A key of a config is "kept" or excluded, or is not; a    *)
(* value says which system it is of.                                         *)
EXTENDS ImportJob

CONSTANTS cas, ldap, nginx, daily, target, source

MCDogus == {cas, ldap}
MCExcluded == {cas}
MCDirs == {"db"}
MCVolumes == [d \in MCDogus |-> MCDirs]
MCConfigDogus == {ldap, nginx}
MCExcludedKeys == [d \in MCConfigDogus |-> {"mail"}]
MCKeys == {"fqdn", "proxy", "plain", "mail", "old"}
MCKeptKeys == {"fqdn", "proxy"}
MCSchedules == {daily}
MCValues == {target, source}

OfSource(keys) == [k \in keys |-> source]
OfTarget(keys) == [k \in keys |-> target]

MCTargets == MCConfigDogus \X {"normal", "sensitive"}

\* The source system has every key, a local config and a schedule, or few keys
\* and neither.
MCSourceConfigs ==
    {[global |-> OfSource({"fqdn", "proxy", "plain"}), dogus |-> [t \in MCTargets |-> OfSource({"mail", "plain"})],
      local |-> {ldap}, schedules |-> MCSchedules],
     [global |-> OfSource({"plain"}), dogus |-> [t \in MCTargets |-> OfSource({"plain"})],
      local |-> {}, schedules |-> {}]}

Old(l, s, api) ==
    [global |-> OfTarget({"fqdn", "proxy", "old"}), dogus |-> [t \in MCTargets |-> OfTarget({"mail", "old"})],
     local |-> [d \in MCConfigDogus |-> l], schedules |-> [x \in MCSchedules |-> s], api |-> api]

\* The target system has configs with keys that the source system lacks, with or
\* without the backup operator, or it is a new one.
MCTargetConfigs ==
    {Old("old", "old", TRUE), Old("noDir", "absent", FALSE),
     [global |-> NoConfig, dogus |-> [t \in MCTargets |-> NoConfig],
      local |-> [d \in MCConfigDogus |-> "old"], schedules |-> [x \in MCSchedules |-> "absent"],
      api |-> TRUE]}

=============================================================================
