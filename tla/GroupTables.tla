---------------------------- MODULE GroupTables -----------------------------
(***************************************************************************)
(* How the register tables of the inverters are written in the modules     *)
(* SolisTables and BrandTables.  A group is a record:                      *)
(*                                                                         *)
(*   speed     its "poll_speed": "once", "fast", "normal", "slow", or      *)
(*             "default" where the table gives none                        *)
(*   type      its "register_type", or "default"                           *)
(*   sensors   its entities in order, each as its set of registers         *)
(*   needs     its "feature_requirement": one of these features            *)
(*   profiles  the reduced poll profiles that keep it                      *)
(*   reserved  the first registers of entities that are placeholders       *)
(*   editable  the first registers of entities that are numbers to set     *)
(*                                                                         *)
(* Names, units, limits and multipliers of the entities are left out.      *)
(***************************************************************************)
EXTENDS Naturals, Sequences, SequencesExt

\* n entities of one register each.
Ones(n) == [i \in 1..n |-> 1]

\* Consecutive entities, from register first on, each as wide as widths says.
Run(first, widths) ==
    FoldLeft(LAMBDA run, width :
                LET lo == IF run = <<>> THEN first ELSE Max(Last(run)) + 1
                IN  Append(run, lo..(lo + width - 1)),
             <<>>, widths)

\* A group as most tables have it: for all features, in no reduced profile, read-only.
Group(speed, type, sensors) ==
    [speed |-> speed, type |-> type, sensors |-> sensors,
     needs |-> {}, profiles |-> {}, reserved |-> {}, editable |-> {}]
=============================================================================
