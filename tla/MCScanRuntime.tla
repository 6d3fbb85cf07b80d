---------------------------- MODULE MCScanRuntime -----------------------------
(* Small instances of ScanRuntime. *)
EXTENDS ScanRuntime, TLC

CONSTANTS control, cleanup, directory, trash, uninstall, reader

MCWork == {control, cleanup, trash, uninstall}
MCKindOf ==
    control :> "controlScan" @@ cleanup :> "cleanupScan" @@ trash :> "trash"
        @@ uninstall :> "planTrash"

MCMaxGeneration == [r \in Reports |-> IF r = "scan" THEN 2 ELSE 1]

LeakWork == {uninstall, reader}
LeakKindOf == uninstall :> "planTrash" @@ reader :> "reader"
LeakMaxGeneration == [r \in Reports |-> 1]
===============================================================================
