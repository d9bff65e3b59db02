------------------------------- MODULE MCBcache -------------------------------
(* Instances of Bcache for TLC.                                                *)
EXTENDS Bcache, TLC

Symmetry == Permutations(Proc) \cup Permutations(Sector) \cup Permutations(Val)

\* With read errors the properties are not about contents, and no step depends on them.
View == <<lru, sector, busy, valid, dirty, idequeue, irq, errors, pc, want, buf,
          IF ~errors THEN <<data, cmd, disk>>
          ELSE IF cmd = NoCmd THEN cmd ELSE <<cmd.write, cmd.sector>> >>
===============================================================================
