------------------------------ MODULE MCBackup ------------------------------
(* Values of the constants of Backup for TLC. *)
EXTENDS Backup, TLC

At(type, hour, day) == [type |-> type, hour |-> hour, day |-> day]

Saved(enabled, schedule, targets, destinations, retention) ==
  [enabled |-> enabled, schedule |-> schedule, targets |-> targets,
   destinations |-> destinations, retention |-> retention,
   sftpHost |-> "remote" \in destinations, sftpPassword |-> TRUE]

\* A remote destination is chosen and the address of the server is left empty.
Addressless == [Saved(TRUE, At("daily", 9, 1), {"db"}, {"remote"}, 1) EXCEPT !.sftpHost = FALSE]

MCSettings ==
  { Saved(TRUE, At("weekly", 2, 0), {"db", "docs"}, {"local"}, 1),
    Saved(TRUE, At("daily", 9, 1), {"docs"}, {"remote"}, 1),
    Saved(FALSE, At("monthly", 2, 28), {"db"}, {"local", "remote"}, 2),
    Addressless }

Symmetry == Permutations(Run)

============================================================================
