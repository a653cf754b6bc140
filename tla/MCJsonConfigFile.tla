-------------------------- MODULE MCJsonConfigFile --------------------------
\* Small instances of JsonConfigFile with the fields, defaults and floors of
\* AppConfig (include/konative/app/app_config.hpp).
EXTENDS JsonConfigFile, TLC

log == "tick_log_interval"
snap == "snapshot_interval_ticks"

MCFields == {log, snap}
MCDefaults == (log :> 120) @@ (snap :> 300)
MCFloor == (log :> 10) @@ (snap :> 60)

Doc(vals, fault) == [vals |-> vals, fault |-> fault]
Partial == Doc(log :> 45, "none")
BelowFloor == Doc((log :> -1) @@ (snap :> 900), "none")
OutOfRange == Doc(log :> 20, "range")
WrongType == Doc(<<>>, "type")

MCDocs == {Partial, BelowFloor, OutOfRange}
MCDocsTyped == {Partial, WrongType}
MCDocsAll == MCDocs \cup MCDocsTyped
=============================================================================
