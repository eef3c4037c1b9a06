--------------------------- MODULE BootstrapAbstract ---------------------------
(***************************************************************************)
(* What a run of the registry bootstrap promises, without its steps (spec  *)
(* sections 4.5, 4.6 and 8):                                               *)
(*   - a run starts from a directory every file of which loads, and fixes  *)
(*     then the registry it will publish: the scan of that directory;      *)
(*   - registry.json changes only when a run publishes, and then to that   *)
(*     registry, in one step;                                              *)
(*   - the directory changes only during a run that reorganizes it;        *)
(*   - a run may end without publishing (an error or a kill), leaving the  *)
(*     directory as far as it got.                                         *)
(* Scan(f, w) is the registry of directory f with reorganization flag w.   *)
(***************************************************************************)
CONSTANTS
  FileStates,  \* the states the strategies directory can be in
  Ready(_),    \* a directory whose files are all loadable, and not empty
  Scan(_, _),  \* the registry a run over a directory must publish
  NoManifest   \* registry.json does not exist

VARIABLES
  fs,          \* the strategies directory
  manifest,    \* registry.json
  running,     \* a run is in progress
  target,      \* the registry the current or last run publishes
  reorganize   \* the current or last run's flag

vars == <<fs, manifest, running, target, reorganize>>

Init ==
  /\ fs \in FileStates
  /\ manifest = NoManifest
  /\ running = FALSE
  /\ reorganize \in BOOLEAN
  /\ target = Scan(fs, reorganize)

Start(w) ==
  /\ ~running
  /\ Ready(fs)
  /\ running' = TRUE
  /\ target' = Scan(fs, w)
  /\ reorganize' = w
  /\ UNCHANGED <<fs, manifest>>

Reorganize ==
  /\ running
  /\ reorganize
  /\ fs' \in FileStates
  /\ UNCHANGED <<manifest, running, target, reorganize>>

Publish ==
  /\ running
  /\ manifest' = target
  /\ running' = FALSE
  /\ UNCHANGED <<fs, target, reorganize>>

Stop ==
  /\ running
  /\ running' = FALSE
  /\ \/ fs' = fs
     \/ reorganize /\ fs' \in FileStates
  /\ UNCHANGED <<manifest, target, reorganize>>

Next == (\E w \in BOOLEAN : Start(w)) \/ Reorganize \/ Publish \/ Stop

Spec == Init /\ [][Next]_vars

=============================================================================
