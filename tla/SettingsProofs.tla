---------------------------- MODULE SettingsProofs ----------------------------
(***************************************************************************)
(* race-overlay.toml is safe with its writers, for any binds and choices   *)
(* and any number of edits, starts, captures and faults.                   *)
(***************************************************************************)
EXTENDS Settings, TLAPS

-------------------------------------------------------------------------------
(* The inductive invariant.                                                *)

(* What is not saved is exactly where the overlay's configuration differs  *)
(* from the one it last saved.                                             *)
EditsAreUnsaved ==
    /\ \A l \in Leaf : edits[l] = IF live[l] # baseline[l] THEN live[l] ELSE Unchanged
    /\ pc \in {"down", "migrating", "starting"} => live = baseline

(* A file that does not parse still says what was last saved.              *)
Said == IF Readable THEN Load ELSE disk.cfg
FileSays == ~ overrun => Said = truth

(* Whoever holds the mutex has read the file as it is.                     *)
HolderIsCurrent ==
    /\ pc = "loaded" => Readable /\ copy = Load
    /\ cli = "loaded" => Readable /\ cli_copy = Load

(* A migration begun writes the older file, there as long as no new one is.*)
Migrating == pc = "migrating" => live = OlderConfig /\ (disk.state = "absent" => older)

SettingsInv == TypeOK /\ EditsAreUnsaved /\ FileSays /\ HolderIsCurrent /\ Migrating

-------------------------------------------------------------------------------
(* The operators on configurations.                                        *)

LEMMA LoadType == ASSUME TypeOK PROVE Load \in Config /\ OlderConfig \in Config /\ Default \in Config
BY DEF TypeOK, Load, OlderConfig, Default, Config, Value, Leaf

LEMMA WithBindType ==
    ASSUME NEW c \in Config, NEW b \in Bind
    PROVE  WithBind(c, b) \in Config
BY DEF WithBind, Config, Bind, Leaf

(* Only the bind changes. *)
LEMMA WithBindSets ==
    ASSUME NEW c \in Config, NEW b \in Bind
    PROVE  /\ WithBind(c, b)["device"] = b[1] /\ WithBind(c, b)["button"] = b[2]
           /\ WithBind(c, b)["pos"] = c["pos"] /\ WithBind(c, b)["margin"] = c["margin"]
BY DEF WithBind, Config, Bind, Leaf

LEMMA BindType == ASSUME NEW c \in Config PROVE BindOf(c) \in Bind
BY DEF BindOf, Bind, Config, Leaf

LEMMA MergeType ==
    ASSUME NEW before \in Config, NEW after \in Config, NEW target \in Config
    PROVE  Merge(before, after, target) \in Config
BY DEF Merge, Config

LEMMA TypeInit == Init => TypeOK
<1> SUFFICES ASSUME Init PROVE TypeOK
  OBVIOUS
<1>1. Default \in Config /\ OlderConfig \in Config /\ <<0, 0>> \in Bind /\ 0 \in Nat /\ 1 \in Nat
  BY DEF Default, OlderConfig, Config, Value, Bind
<1>2. /\ disk \in [state : {"absent", "malformed", "good"}, cfg : Config]
      /\ stamp \in Nat /\ older \in BOOLEAN
  <2>1. CASE disk = Good(Default) /\ older = FALSE /\ stamp = 1
    BY <1>1, <2>1 DEF Good
  <2>2. CASE disk = [state |-> "absent", cfg |-> Default] /\ older \in BOOLEAN /\ stamp = 0
    BY <1>1, <2>2
  <2> QED BY <2>1, <2>2 DEF Init
<1>3. Load \in Config
  BY <1>1, <1>2 DEF Load
<1>4. edits \in [Leaf -> Value \cup {Unchanged}]
  BY DEF Init
<1>5. {settings_changed, blackbox_changed, retry, blind, overrun} \subseteq BOOLEAN
  BY Zenon DEF Init
<1>6. {copy, live, baseline, cli_copy, truth} \subseteq Config
  BY <1>1, <1>3 DEF Init
<1>7. /\ lock = "free" /\ pc = "down" /\ cause = "none" /\ cli = "off" /\ cli_bind = <<0, 0>>
      /\ seen = 0 /\ sample = 0 /\ load_stamp = 0
  BY DEF Init
<1> QED BY <1>1, <1>2, <1>4, <1>5, <1>6, <1>7 DEF TypeOK

(* A write puts a configuration into the file and moves its time on. *)
LEMMA WriteType ==
    ASSUME TypeOK, NEW c \in Config, Write(c)
    PROVE  /\ disk' \in [state : {"absent", "malformed", "good"}, cfg : Config]
           /\ stamp' = stamp + 1 /\ stamp' \in Nat /\ {seen, sample, load_stamp} \subseteq 0 .. stamp'
BY DEF Write, Good, TypeOK

LEMMA DownType ==
    ASSUME Down, NEW n \in Nat
    PROVE  /\ pc' = "down" /\ cause' = "none"
           /\ {copy', live', baseline'} \subseteq Config
           /\ {settings_changed', blackbox_changed', retry', blind'} \subseteq BOOLEAN
           /\ {seen', sample', load_stamp'} \subseteq 0 .. n
           /\ edits' \in [Leaf -> Value \cup {Unchanged}]
<1>1. Default \in Config
  BY DEF Default, Config, Value
<1>2. edits' \in [Leaf -> Value \cup {Unchanged}]
  BY DEF Down
<1>3. {settings_changed', blackbox_changed', retry', blind'} \subseteq BOOLEAN
  BY Zenon DEF Down
<1>4. seen' \in 0 .. n /\ sample' \in 0 .. n /\ load_stamp' \in 0 .. n
  BY DEF Down
<1>5. pc' = "down" /\ cause' = "none" /\ copy' = Default /\ live' = Default /\ baseline' = Default
  BY Zenon DEF Down
<1> QED BY <1>1, <1>2, <1>3, <1>4, <1>5

LEMMA TypeStep == TypeOK /\ [Next]_vars => TypeOK'
<1> SUFFICES ASSUME TypeOK, [Next]_vars PROVE TypeOK'
  OBVIOUS
<1> USE SettingsAssumption DEF overlayVars, cliVars, fileVars, counts
<1>1. CASE Start
  BY <1>1, LoadType DEF Start, TypeOK, Migrates
<1>2. CASE Migrate
  <2>1. Write(live) /\ live \in Config
    BY <1>2 DEF Migrate, TypeOK
  <2>2. /\ disk' \in [state : {"absent", "malformed", "good"}, cfg : Config]
        /\ stamp' \in Nat /\ {seen, sample, load_stamp} \subseteq 0 .. stamp'
    BY <2>1, WriteType
  <2>3. overrun' \in BOOLEAN /\ older' \in BOOLEAN
    BY <1>2 DEF Migrate
  <2>4. /\ UNCHANGED <<truth, cause, copy, live, baseline, settings_changed, blackbox_changed, retry,
                       seen, sample, edits, blind, cliVars, lock>>
        /\ pc' = "starting" /\ load_stamp' = stamp' /\ lock = "free"
    BY <1>2 DEF Migrate
  <2> QED BY <2>2, <2>3, <2>4 DEF TypeOK
<1>3. CASE MigrateFails
  BY <1>3 DEF MigrateFails, TypeOK
<1>4. CASE Ready
  BY <1>4 DEF Ready, TypeOK
<1>5. ASSUME NEW new \in Config, Edit(new),
             {settings_changed', blackbox_changed', retry'} \subseteq BOOLEAN,
             UNCHANGED <<pc, cause>> \/ (pc' = "waiting" /\ cause' = "drag")
      PROVE  TypeOK'
  <2>1. edits' \in [Leaf -> Value \cup {Unchanged}]
    BY <1>5 DEF Edit, Config
  <2> QED BY <1>5, <2>1 DEF Edit, TypeOK
<1>6. ASSUME NEW b \in PageBinds, EditBind(b) PROVE TypeOK'
  <2>1. b \in Bind /\ live \in Config
    BY DEF TypeOK
  <2>2. WithBind(live, b) \in Config
    BY <2>1, WithBindType
  <2>3. {settings_changed', blackbox_changed', retry'} \subseteq BOOLEAN /\ UNCHANGED <<pc, cause>>
    BY <1>6 DEF EditBind, TypeOK
  <2>4. Edit(WithBind(live, b))
    BY <1>6 DEF EditBind
  <2> QED BY <1>5, <2>2, <2>3, <2>4
<1>7. ASSUME NEW v \in Chosen, EditMargin(v) PROVE TypeOK'
  <2>1. [live EXCEPT !["margin"] = v] \in Config
    BY DEF TypeOK, Config
  <2>2. {settings_changed', blackbox_changed', retry'} \subseteq BOOLEAN /\ UNCHANGED <<pc, cause>>
    BY <1>7 DEF EditMargin, TypeOK
  <2>3. Edit([live EXCEPT !["margin"] = v])
    BY <1>7 DEF EditMargin
  <2> QED BY <1>5, <2>1, <2>2, <2>3
<1>8. ASSUME NEW v \in Chosen, EditPos(v) PROVE TypeOK'
  <2>1. [live EXCEPT !["pos"] = v] \in Config
    BY DEF TypeOK, Config
  <2>2. /\ {settings_changed', blackbox_changed', retry'} \subseteq BOOLEAN
        /\ UNCHANGED <<pc, cause>> \/ (pc' = "waiting" /\ cause' = "drag")
    BY <1>8 DEF EditPos, TypeOK
  <2>3. Edit([live EXCEPT !["pos"] = v])
    BY <1>8 DEF EditPos
  <2> QED BY <1>5, <2>1, <2>2, <2>3
<1>9. ASSUME NEW why \in {"settings", "blackbox", "retry", "exit"}, BeginSave(why) PROVE TypeOK'
  BY <1>9 DEF BeginSave, TypeOK
<1>10. CASE TakeLock
  BY <1>10 DEF TakeLock, TypeOK
<1>11. ASSUME GiveUp, UNCHANGED <<cliVars, fileVars>>, lock' \in {"free", "cli"}, lock # lock' => lock = "overlay" /\ lock' = "free",
              pc \in {"waiting", "locked", "loaded"}
       PROVE  TypeOK'
  <2>1. CASE cause = "exit"
    <3>1. Down /\ stamp \in Nat
      BY <1>11, <2>1 DEF GiveUp, TypeOK
    <3> QED BY <1>11, <3>1, DownType DEF TypeOK
  <2>2. CASE cause # "exit"
    BY <1>11, <2>2, LoadType DEF GiveUp, TypeOK, RetryAfterFailure
  <2> QED BY <2>1, <2>2
<1>12. CASE LockTimeout
  BY <1>11, <1>12 DEF LockTimeout
<1>13. CASE ReadForMerge
  <2>1. CASE Migrates
    <3>1. Write(OlderConfig) /\ older' \in BOOLEAN /\ copy' = Load
      BY <1>13, <2>1 DEF ReadForMerge
    <3>2. /\ disk' \in [state : {"absent", "malformed", "good"}, cfg : Config]
          /\ stamp' \in Nat /\ {seen, sample, load_stamp} \subseteq 0 .. stamp'
      BY <3>1, LoadType, WriteType
    <3>3. /\ UNCHANGED <<cause, live, baseline, settings_changed, blackbox_changed, retry, seen, sample,
                         edits, load_stamp, blind, cliVars, truth, overrun, lock>>
          /\ pc' = "loaded" /\ pc = "locked"
      BY <1>13 DEF ReadForMerge
    <3> QED BY <3>1, <3>2, <3>3, LoadType DEF TypeOK
  <2>2. CASE ~ Migrates
    BY <1>13, <2>2, LoadType DEF ReadForMerge, TypeOK
  <2> QED BY <2>1, <2>2
<1>14. CASE ReadFails
  BY <1>11, <1>14 DEF ReadFails, TypeOK
<1>15. CASE WriteMerged
  <2>1. Merge(baseline, live, copy) \in Config
    BY MergeType DEF TypeOK
  <2>2. truth' \in Config
    BY <1>15 DEF WriteMerged, TypeOK, Config
  <2>3. /\ disk' \in [state : {"absent", "malformed", "good"}, cfg : Config]
        /\ stamp' \in Nat /\ {seen, sample, load_stamp} \subseteq 0 .. stamp'
    BY <1>15, <2>1, WriteType DEF WriteMerged
  <2>4. CASE cause = "exit"
    <3>1. Down
      BY <1>15, <2>4 DEF WriteMerged
    <3> QED BY <1>15, <2>2, <2>3, <3>1, DownType DEF WriteMerged, TypeOK
  <2>5. CASE cause # "exit"
    <3>1. edits' \in [Leaf -> Value \cup {Unchanged}]
      BY <1>15, <2>5 DEF WriteMerged
    <3>2. /\ pc' = "run" /\ cause' = "none" /\ copy' = Default /\ baseline' = live /\ retry' = FALSE
          /\ {settings_changed', blackbox_changed'} \subseteq BOOLEAN
          /\ UNCHANGED <<live, seen, sample, load_stamp, blind, cliVars, older, overrun>>
          /\ lock' = "free" /\ lock = "overlay"
      BY <1>15, <2>5 DEF WriteMerged, TypeOK
    <3>3. {copy', live', baseline', truth', cli_copy'} \subseteq Config
      BY <2>2, <3>2, LoadType DEF TypeOK
    <3>4. /\ {settings_changed', blackbox_changed', retry', blind', overrun', older'} \subseteq BOOLEAN
          /\ {seen', sample', load_stamp'} \subseteq 0 .. stamp'
          /\ cli' \in {"off", "waiting", "locked", "loaded"} /\ cli_bind' \in Bind
          /\ cli' \notin {"locked", "loaded"}
      BY <2>3, <3>2 DEF TypeOK
    <3> QED BY <2>3, <3>1, <3>2, <3>3, <3>4 DEF TypeOK
  <2> QED BY <2>4, <2>5
<1>16. CASE WriteFails
  BY <1>11, <1>16 DEF WriteFails, TypeOK
<1>17. CASE Sample
  BY <1>17 DEF Sample, TypeOK
<1>18. CASE Reload
  <2>1. WithBind(live, BindOf(Load)) \in Config /\ WithBind(baseline, BindOf(Load)) \in Config
    BY LoadType, BindType, WithBindType DEF TypeOK
  <2> QED BY <1>18, <2>1 DEF Reload, TypeOK
<1>19. ASSUME NEW b \in CliBinds, Capture(b) PROVE TypeOK'
  BY <1>19 DEF Capture, TypeOK
<1>20. ASSUME CliOff, UNCHANGED <<overlayVars, truth, overrun>>, older' \in BOOLEAN,
              disk' \in [state : {"absent", "malformed", "good"}, cfg : Config],
              stamp' \in Nat, {seen, sample, load_stamp} \subseteq 0 .. stamp',
              lock' = IF lock = "cli" THEN "free" ELSE lock
       PROVE  TypeOK'
  BY <1>20, LoadType DEF TypeOK, CliOff, Bind, Value
<1>21. CASE CliLock
  <2>1. CASE lock = "free"
    BY <1>21, <2>1 DEF CliLock, TypeOK
  <2>2. CASE lock = "overlay"
    BY <1>20, <1>21, <2>2 DEF CliLock, TypeOK
  <2> QED BY <1>21, <2>1, <2>2 DEF CliLock
<1>22. CASE CliRead
  <2>1. CASE Readable /\ Migrates
    <3>1. Write(OlderConfig) /\ older' \in BOOLEAN /\ cli_copy' = Load
      BY <1>22, <2>1 DEF CliRead
    <3>2. /\ disk' \in [state : {"absent", "malformed", "good"}, cfg : Config]
          /\ stamp' \in Nat /\ {seen, sample, load_stamp} \subseteq 0 .. stamp'
      BY <3>1, LoadType, WriteType
    <3>3. /\ UNCHANGED <<overlayVars, truth, overrun, cli_bind, lock>>
          /\ cli' = "loaded" /\ cli = "locked"
      BY <1>22, <2>1 DEF CliRead
    <3> QED BY <3>1, <3>2, <3>3, LoadType DEF TypeOK
  <2>2. CASE Readable /\ ~ Migrates
    BY <1>22, <2>2, LoadType DEF CliRead, TypeOK
  <2>3. CASE ~ Readable
    BY <1>20, <1>22, <2>3 DEF CliRead, TypeOK
  <2> QED BY <2>1, <2>2, <2>3
<1>23. CASE CliWrite
  <2>1. WithBind(cli_copy, cli_bind) \in Config /\ WithBind(truth, cli_bind) \in Config
    BY WithBindType DEF TypeOK
  <2>2. /\ disk' \in [state : {"absent", "malformed", "good"}, cfg : Config]
        /\ stamp' \in Nat /\ {seen, sample, load_stamp} \subseteq 0 .. stamp'
    BY <1>23, <2>1, WriteType DEF CliWrite
  <2> QED BY <1>23, <2>1, <2>2, LoadType DEF CliWrite, CliOff, TypeOK, Bind, Value
<1>24. CASE OverlayCrash
  <2>1. Down /\ stamp \in Nat
    BY <1>24 DEF OverlayCrash, TypeOK
  <2> QED BY <1>24, <2>1, DownType DEF OverlayCrash, LockAfter, TypeOK
<1>25. CASE CliCrash
  BY <1>20, <1>25 DEF CliCrash, LockAfter, TypeOK
<1>26. CASE HandDamage
  BY <1>26 DEF HandDamage, TypeOK
<1>27. CASE HandRepair
  <2>1. Write(disk.cfg) /\ disk.cfg \in Config
    BY <1>27 DEF HandRepair, TypeOK
  <2> QED BY <1>27, <2>1, WriteType DEF HandRepair, TypeOK
<1>28. CASE UNCHANGED vars
  BY <1>28 DEF vars, TypeOK
<1> QED BY <1>1, <1>2, <1>3, <1>4, <1>6, <1>7, <1>8, <1>9, <1>10, <1>12, <1>13, <1>14, <1>15, <1>16,
           <1>17, <1>18, <1>19, <1>21, <1>22, <1>23, <1>24, <1>25, <1>26, <1>27, <1>28
        DEF Next, StartStep, Autosave, SaveStep, CliStep

(* Every step is one of these; the last group changes neither the file nor
   what the overlay works with.                                            *)
LEMMA StepCases ==
    ASSUME [Next]_vars
    PROVE  \/ Start \/ Migrate \/ ReadForMerge \/ WriteMerged \/ Reload \/ CliRead \/ CliWrite
           \/ HandDamage \/ HandRepair
           \/ \E new : Edit(new) /\ pc' \in {"run", "waiting"}
           \/ /\ UNCHANGED fileVars
              /\ \/ Down /\ UNCHANGED cliVars
                 \/ /\ UNCHANGED <<live, baseline, edits>>
                    /\ pc' = "loaded" => pc = "loaded" /\ copy' = copy
                    /\ cli' = "loaded" => cli = "loaded" /\ cli_copy' = cli_copy
                    /\ pc' = "migrating" => pc = "migrating"
                    /\ pc' \in {"down", "starting"} => pc \in {"down", "migrating", "starting"}
<1> USE DEF overlayVars, cliVars, fileVars
<1>1. ASSUME NEW new, Edit(new), pc' \in {"run", "waiting"}
      PROVE  \E n : Edit(n) /\ pc' \in {"run", "waiting"}
  BY <1>1
<1>2. ASSUME NEW b \in PageBinds, EditBind(b) PROVE \E n : Edit(n) /\ pc' \in {"run", "waiting"}
  <2>1. Edit(WithBind(live, b)) /\ pc' \in {"run", "waiting"}
    BY <1>2 DEF EditBind, Edit
  <2> QED BY <1>1, <2>1
<1>3. ASSUME NEW v \in Chosen, EditMargin(v) \/ EditPos(v)
      PROVE  \E n : Edit(n) /\ pc' \in {"run", "waiting"}
  <2>1. CASE EditMargin(v)
    <3>1. Edit([live EXCEPT !["margin"] = v]) /\ pc' \in {"run", "waiting"}
      BY <2>1 DEF EditMargin, Edit
    <3> QED BY <1>1, <3>1
  <2>2. CASE EditPos(v)
    <3>1. Edit([live EXCEPT !["pos"] = v]) /\ pc' \in {"run", "waiting"}
      BY <2>2 DEF EditPos, Edit
    <3> QED BY <1>1, <3>1
  <2> QED BY <1>3, <2>1, <2>2
<1> DEFINE Quiet == /\ UNCHANGED fileVars
                    /\ \/ Down /\ UNCHANGED cliVars
                       \/ /\ UNCHANGED <<live, baseline, edits>>
                          /\ pc' = "loaded" => pc = "loaded" /\ copy' = copy
                          /\ cli' = "loaded" => cli = "loaded" /\ cli_copy' = cli_copy
                          /\ pc' = "migrating" => pc = "migrating"
                          /\ pc' \in {"down", "starting"} => pc \in {"down", "migrating", "starting"}
<1>4. MigrateFails \/ Ready => Quiet
  BY DEF MigrateFails, Ready
<1>5. ASSUME NEW why, BeginSave(why) PROVE Quiet
  BY <1>5 DEF BeginSave
<1>6. TakeLock \/ Sample => Quiet
  BY DEF TakeLock, Sample
<1>7. GiveUp /\ UNCHANGED <<cliVars, fileVars>> => Quiet
  BY DEF GiveUp
<1>8. LockTimeout \/ ReadFails \/ WriteFails => Quiet
  BY <1>7 DEF LockTimeout, ReadFails, WriteFails
<1>9. ASSUME NEW b, Capture(b) PROVE Quiet
  BY <1>9 DEF Capture
<1>10. CliLock \/ CliCrash => Quiet
  BY DEF CliLock, CliCrash, CliOff
<1>11. OverlayCrash => Quiet
  BY DEF OverlayCrash
<1>12. UNCHANGED vars => Quiet
  BY DEF vars
<1> HIDE DEF Quiet
<1>13. \/ Start \/ Migrate \/ ReadForMerge \/ WriteMerged \/ Reload \/ CliRead \/ CliWrite
       \/ HandDamage \/ HandRepair
       \/ \E n : Edit(n) /\ pc' \in {"run", "waiting"}
       \/ Quiet
  BY <1>2, <1>3, <1>4, <1>5, <1>6, <1>8, <1>9, <1>10, <1>11, <1>12
     DEF Next, StartStep, Autosave, SaveStep, CliStep
<1> QED BY <1>13 DEF Quiet

LEMMA EditsStep ==
    ASSUME TypeOK, EditsAreUnsaved, [Next]_vars
    PROVE  EditsAreUnsaved'
<1> USE DEF EditsAreUnsaved
<1>1. CASE Start
  <2>1. live = baseline /\ live' = Load /\ baseline' = Load /\ edits' = edits
    BY <1>1 DEF Start
  <2> QED BY <2>1
<1>2. ASSUME NEW new, Edit(new), pc' \in {"run", "waiting"} PROVE EditsAreUnsaved'
  BY <1>2 DEF Edit
<1>3. CASE WriteMerged
  <2>1. CASE cause = "exit"
    BY <1>3, <2>1 DEF WriteMerged, Down
  <2>2. CASE cause # "exit"
    BY <1>3, <2>2 DEF WriteMerged
  <2> QED BY <2>1, <2>2
<1>4. CASE Reload
  <2>1. CASE Readable /\ Importable(BindOf(live), BindOf(baseline))
    <3>1. live["device"] = baseline["device"] /\ live["button"] = baseline["button"]
      BY <2>1 DEF Importable, BindOf
    <3>2. /\ live' = WithBind(live, BindOf(Load)) /\ baseline' = WithBind(baseline, BindOf(Load))
          /\ edits' = edits /\ pc' = "run"
      BY <1>4, <2>1 DEF Reload
    <3>3. BindOf(Load) \in Bind /\ live \in Config /\ baseline \in Config
      BY LoadType, BindType DEF TypeOK
    <3>4. /\ live'["device"] = baseline'["device"] /\ live'["button"] = baseline'["button"]
          /\ live'["pos"] = live["pos"] /\ live'["margin"] = live["margin"]
          /\ baseline'["pos"] = baseline["pos"] /\ baseline'["margin"] = baseline["margin"]
      BY <3>2, <3>3, WithBindSets
    <3> QED BY <3>1, <3>2, <3>4 DEF Leaf
  <2>2. CASE ~ (Readable /\ Importable(BindOf(live), BindOf(baseline)))
    BY <1>4, <2>2 DEF Reload
  <2> QED BY <2>1, <2>2
<1>5. CASE Down
  BY <1>5 DEF Down
<1>6. CASE Migrate \/ ReadForMerge \/ CliRead \/ CliWrite \/ HandDamage \/ HandRepair
  BY <1>6 DEF Migrate, ReadForMerge, CliRead, CliWrite, HandDamage, HandRepair, overlayVars
<1> QED BY <1>1, <1>2, <1>3, <1>4, <1>5, <1>6, StepCases

(* A file just written says what was written. *)
LEMMA WriteSays == ASSUME NEW c, Write(c) PROVE Readable' /\ Load' = c /\ Said' = c /\ disk'.state = "good"
BY DEF Write, Good, Readable, Load, Said

(* What the overlay writes is what it has to save, over what it read. *)
LEMMA MergeSaves ==
    ASSUME TypeOK, EditsAreUnsaved, truth = copy
    PROVE  Merge(baseline, live, copy)
             = [l \in Leaf |-> IF edits[l] # Unchanged THEN edits[l] ELSE truth[l]]
<1>1. \A l \in Leaf : live[l] # Unchanged
  BY DEF TypeOK, Config, Value, Unchanged
<1> QED BY <1>1 DEF Merge, EditsAreUnsaved

LEMMA FileStep ==
    ASSUME TypeOK, EditsAreUnsaved, FileSays, HolderIsCurrent, Migrating, [Next]_vars
    PROVE  FileSays' /\ HolderIsCurrent'
<1> DEFINE Kept == FileSays' /\ HolderIsCurrent'
<1>a. ASSUME UNCHANGED <<disk, older, truth, overrun>>,
             pc' = "loaded" => pc = "loaded" /\ copy' = copy,
             cli' = "loaded" => cli = "loaded" /\ cli_copy' = cli_copy
      PROVE  Kept
  BY <1>a DEF FileSays, HolderIsCurrent, Said, Load, Readable
<1> HIDE DEF Kept
<1>b. ASSUME UNCHANGED fileVars, pc' # "loaded" \/ UNCHANGED overlayVars, UNCHANGED cliVars PROVE Kept
  BY <1>a, <1>b DEF fileVars, overlayVars, cliVars
<1>1. CASE Start
  <2>1. UNCHANGED fileVars /\ UNCHANGED cliVars /\ pc' # "loaded"
    BY <1>1 DEF Start
  <2> QED BY <1>b, <2>1 DEF Kept
<1>2. CASE Migrate
  <2>1. Write(live) /\ overrun' = (overrun \/ disk.state # "absent") /\ truth' = truth
    BY <1>2 DEF Migrate
  <2>2. pc' = "starting" /\ cli' = cli /\ lock = "free" /\ pc = "migrating"
    BY <1>2 DEF Migrate, cliVars
  <2>3. HolderIsCurrent'
    BY <2>2 DEF HolderIsCurrent, TypeOK
  <2>4. FileSays'
    <3> SUFFICES ASSUME ~ overrun' PROVE Said' = truth
      BY <2>1 DEF FileSays
    <3>1. ~ overrun /\ disk.state = "absent"
      BY <2>1
    <3>2. older /\ live = OlderConfig
      BY <2>2, <3>1 DEF Migrating
    <3>3. Said = OlderConfig
      BY <3>1, <3>2 DEF Said, Readable, Load
    <3> QED BY <2>1, <3>1, <3>2, <3>3, WriteSays DEF FileSays
  <2> QED BY <2>3, <2>4 DEF Kept
<1>3. CASE ReadForMerge
  <2>1. pc' = "loaded" /\ copy' = Load /\ Readable /\ truth' = truth /\ overrun' = overrun /\ lock = "overlay" /\ cli' = cli
    BY <1>3 DEF ReadForMerge, TypeOK, cliVars
  <2>2. cli' # "loaded"
    BY <2>1 DEF TypeOK
  <2>3. CASE Migrates
    <3>1. Write(OlderConfig)
      BY <1>3, <2>3 DEF ReadForMerge
    <3>2. Load = OlderConfig
      BY <2>3 DEF Migrates, Load
    <3>3. Load' = OlderConfig /\ Said' = OlderConfig /\ Readable'
      BY <3>1, WriteSays
    <3> QED BY <2>1, <2>2, <3>2, <3>3 DEF Kept, FileSays, HolderIsCurrent, Said
  <2>4. CASE ~ Migrates
    <3>1. Load' = Load /\ Said' = Said /\ Readable'
      BY <1>3, <2>1, <2>4 DEF ReadForMerge, Load, Said, Readable
    <3> QED BY <2>1, <2>2, <3>1 DEF Kept, FileSays, HolderIsCurrent
  <2> QED BY <2>3, <2>4
<1>4. CASE WriteMerged
  <2>1. /\ Write(Merge(baseline, live, copy)) /\ pc' # "loaded" /\ cli' = cli /\ overrun' = overrun
        /\ truth' = [l \in Leaf |-> IF edits[l] # Unchanged THEN edits[l] ELSE truth[l]]
    BY <1>4 DEF WriteMerged, Down, cliVars
  <2>2. pc = "loaded" /\ lock = "overlay" /\ cli # "loaded"
    BY <1>4 DEF WriteMerged, TypeOK
  <2>3. Said = copy
    BY <2>2 DEF HolderIsCurrent, Said
  <2>4. ~ overrun => Merge(baseline, live, copy) = truth'
    BY <2>1, <2>3, MergeSaves DEF FileSays
  <2> QED BY <2>1, <2>2, <2>4, WriteSays DEF Kept, FileSays, HolderIsCurrent
<1>5. CASE Reload
  <2>1. UNCHANGED fileVars /\ UNCHANGED cliVars /\ pc' # "loaded"
    BY <1>5 DEF Reload
  <2> QED BY <1>b, <2>1 DEF Kept
<1>6. CASE CliRead
  <2>1. truth' = truth /\ overrun' = overrun /\ pc' = pc /\ lock = "cli" /\ pc # "loaded"
    BY <1>6 DEF CliRead, TypeOK, overlayVars
  <2>2. CASE Readable /\ Migrates
    <3>1. Write(OlderConfig) /\ cli' = "loaded" /\ cli_copy' = Load
      BY <1>6, <2>2 DEF CliRead
    <3>2. Load = OlderConfig
      BY <2>2 DEF Migrates, Load
    <3>3. Load' = OlderConfig /\ Said' = OlderConfig /\ Readable'
      BY <3>1, WriteSays
    <3> QED BY <2>1, <2>2, <3>1, <3>2, <3>3 DEF Kept, FileSays, HolderIsCurrent, Said
  <2>3. CASE Readable /\ ~ Migrates
    <3>1. UNCHANGED <<disk, older>> /\ cli' = "loaded" /\ cli_copy' = Load
      BY <1>6, <2>3 DEF CliRead
    <3>2. Load' = Load /\ Said' = Said /\ Readable'
      BY <2>3, <3>1 DEF Load, Said, Readable
    <3> QED BY <2>1, <3>1, <3>2 DEF Kept, FileSays, HolderIsCurrent
  <2>4. CASE ~ Readable
    <3>1. UNCHANGED <<disk, older, truth, overrun>> /\ cli' # "loaded"
      BY <1>6, <2>1, <2>4 DEF CliRead, CliOff
    <3> QED BY <1>a, <2>1, <3>1 DEF Kept
  <2> QED BY <2>2, <2>3, <2>4
<1>7. CASE CliWrite
  <2>1. /\ Write(WithBind(cli_copy, cli_bind)) /\ truth' = WithBind(truth, cli_bind)
        /\ cli' = "off" /\ pc' = pc /\ overrun' = overrun
    BY <1>7 DEF CliWrite, CliOff, overlayVars
  <2>2. cli = "loaded" /\ pc # "loaded"
    BY <1>7 DEF CliWrite, TypeOK
  <2>3. Said = cli_copy
    BY <2>2 DEF HolderIsCurrent, Said
  <2> QED BY <2>1, <2>2, <2>3, WriteSays DEF Kept, FileSays, HolderIsCurrent
<1>8. CASE HandDamage
  <2>1. /\ disk.state = "good" /\ disk'.state = "malformed" /\ disk'.cfg = disk.cfg
        /\ UNCHANGED <<truth, overrun, pc, cli>> /\ lock = "free"
    BY <1>8 DEF HandDamage, TypeOK, overlayVars, cliVars
  <2>2. Said' = Said
    BY <2>1 DEF Said, Readable, Load
  <2> QED BY <2>1, <2>2 DEF Kept, FileSays, HolderIsCurrent, TypeOK
<1>9. CASE HandRepair
  <2>1. disk.state = "malformed" /\ Write(disk.cfg) /\ UNCHANGED <<truth, overrun, pc, cli>> /\ lock = "free"
    BY <1>9 DEF HandRepair, overlayVars, cliVars
  <2>2. Said' = Said
    BY <2>1, WriteSays DEF Said, Readable
  <2> QED BY <2>1, <2>2 DEF Kept, FileSays, HolderIsCurrent, TypeOK
<1>10. ASSUME NEW new, Edit(new), pc' \in {"run", "waiting"} PROVE Kept
  BY <1>10, <1>b DEF Edit
<1>11. CASE UNCHANGED fileVars /\ Down /\ UNCHANGED cliVars
  <2>1. pc' # "loaded"
    BY <1>11 DEF Down
  <2> QED BY <1>11, <1>b, <2>1 DEF Kept
<1>12. ASSUME UNCHANGED fileVars, pc' = "loaded" => pc = "loaded" /\ copy' = copy,
              cli' = "loaded" => cli = "loaded" /\ cli_copy' = cli_copy
       PROVE  Kept
  BY <1>12, <1>a DEF fileVars
<1> QED BY <1>1, <1>2, <1>3, <1>4, <1>5, <1>6, <1>7, <1>8, <1>9, <1>10, <1>11, <1>12, StepCases DEF Kept

LEMMA MigratingStep ==
    ASSUME TypeOK, Migrating, [Next]_vars
    PROVE  Migrating'
<1> USE DEF Migrating
<1>1. CASE Start
  BY <1>1 DEF Start, Migrates, Load, fileVars
<1>2. CASE Migrate
  BY <1>2 DEF Migrate
<1>3. CASE ReadForMerge \/ WriteMerged
  BY <1>3 DEF ReadForMerge, WriteMerged, Down
<1>4. CASE Reload
  BY <1>4 DEF Reload
<1>5. CASE CliRead
  BY <1>5, WriteSays DEF CliRead, overlayVars
<1>6. CASE CliWrite
  BY <1>6, WriteSays DEF CliWrite, overlayVars
<1>7. CASE HandDamage \/ HandRepair
  BY <1>7, WriteSays DEF HandDamage, HandRepair, overlayVars, TypeOK
<1>8. ASSUME NEW new, Edit(new), pc' \in {"run", "waiting"} PROVE Migrating'
  BY <1>8
<1>9. CASE UNCHANGED fileVars /\ Down
  BY <1>9 DEF Down
<1>10. ASSUME UNCHANGED fileVars, UNCHANGED <<live, baseline, edits>>, pc' = "migrating" => pc = "migrating"
       PROVE  Migrating'
  BY <1>10 DEF fileVars
<1> QED BY <1>1, <1>2, <1>3, <1>4, <1>5, <1>6, <1>7, <1>8, <1>9, <1>10, StepCases

LEMMA SettingsInit == Init => SettingsInv
<1> SUFFICES ASSUME Init PROVE SettingsInv
  OBVIOUS
<1>1. TypeOK
  BY TypeInit
<1>2. EditsAreUnsaved /\ HolderIsCurrent /\ Migrating
  BY DEF Init, EditsAreUnsaved, HolderIsCurrent, Migrating
<1>3. FileSays
  <2>1. disk.state # "malformed" /\ truth = Load
    BY DEF Init, Good
  <2> QED BY <2>1 DEF FileSays, Said, Readable
<1> QED BY <1>1, <1>2, <1>3 DEF SettingsInv

LEMMA SettingsStep == SettingsInv /\ [Next]_vars => SettingsInv'
BY TypeStep, EditsStep, FileStep, MigratingStep DEF SettingsInv

(* The state of the file, of the mutex and of both processes is well formed,
   and the mutex is held by whoever is between its read and its write
   (with_write_lock, config.rs).                                           *)
THEOREM SettingsTypeCorrect == Spec => []TypeOK
<1>1. SettingsInv => TypeOK
  BY DEF SettingsInv
<1> QED BY <1>1, SettingsInit, SettingsStep, PTL DEF Spec

(* Leaf by leaf the file says what was last saved, whichever of the overlay
   and `--bind` wrote it and whatever died in between (save_changes and
   update, config.rs: read, merge and rename under one mutex).             *)
THEOREM TheFileIsTheTruth == Spec => []FileIsTruth
<1>1. SettingsInv => FileIsTruth
  BY DEF SettingsInv, FileSays, Said, Readable, Load, FileIsTruth
<1> QED BY <1>1, SettingsInit, SettingsStep, PTL DEF Spec

(* No look at the file takes back what the driver changed and the overlay
   has not saved (reload_clean_binds, app.rs).                             *)
THEOREM UnsavedEditsSurvive == Spec => []PendingEditsSurvive
<1>1. SettingsInv => PendingEditsSurvive
  BY DEF SettingsInv, EditsAreUnsaved, PendingEditsSurvive
<1> QED BY <1>1, SettingsInit, SettingsStep, PTL DEF Spec

(* What a program that does not read a damaged file leaves it alone. *)
LEMMA DamageIsLeft ==
    ASSUME SettingsInv, [Next]_vars, disk.state = "malformed", disk' # disk, ~ overrun'
    PROVE  disk'.cfg = disk.cfg /\ lock = "free"
<1> USE DEF Readable
<1>1. CASE Start \/ Reload
  BY <1>1 DEF Start, Reload, fileVars
<1>2. CASE Migrate
  BY <1>2 DEF Migrate
<1>3. CASE ReadForMerge \/ CliRead
  BY <1>3 DEF ReadForMerge, CliRead
<1>4. CASE WriteMerged \/ CliWrite
  BY <1>4 DEF WriteMerged, CliWrite, SettingsInv, HolderIsCurrent
<1>5. CASE HandDamage \/ HandRepair
  BY <1>5 DEF HandDamage, HandRepair, Write, Good
<1>6. ASSUME NEW new, Edit(new) PROVE FALSE
  BY <1>6 DEF Edit, fileVars
<1>7. CASE UNCHANGED fileVars
  BY <1>7 DEF fileVars
<1> QED BY <1>1, <1>2, <1>3, <1>4, <1>5, <1>6, <1>7, StepCases

(* No program writes over a file that does not parse: whoever means to save
   reads the file first, under the mutex, and gives up (load, save_changes
   and update, config.rs).                                                 *)
THEOREM DamageIsKept == Spec => DamagedFileKept
<1>1. SettingsInv /\ [Next]_vars =>
        [disk.state = "malformed" /\ disk' # disk /\ ~ overrun'
            => disk'.cfg = disk.cfg /\ lock = "free"]_vars
  BY DamageIsLeft
<1> QED BY <1>1, SettingsInit, SettingsStep, PTL DEF Spec, DamagedFileKept
===============================================================================
