------------------------------- MODULE Settings -------------------------------
(***************************************************************************)
(* race-overlay.toml and its writers (config.rs, app.rs, main.rs): the     *)
(* overlay, which loads it once, edits its own copy and saves what it      *)
(* changed, and `race-overlay --bind`, a process of its own that reads the *)
(* file, sets one bind and writes it back, while somebody may be editing   *)
(* the same file by hand.  A machine-wide mutex serializes the writers;    *)
(* processes may die at any step, and a write may fail.                    *)
(*                                                                         *)
(* A configuration is a function from the leaves of the TOML tree.  Three  *)
(* settings stand for the ways a change gets saved: a bind (a table of two *)
(* leaves, settings page, saved once it has settled), a panel's position   *)
(* (saved at once) and the black box's fuel margin (its own settle timer). *)
(***************************************************************************)
EXTENDS Integers

CONSTANTS
    PageBinds, CliBinds,    \* what is captured in the page and by --bind: <<device, button>>
    Chosen,                 \* the values a driver picks for the other settings
    MaxEdits,               \* bound: changes made in the overlay
    MaxCaptures,            \* bound: runs of --bind
    MaxStarts,              \* bound: starts of the overlay
    MaxFaults               \* bound: crashes, failed writes and hand edits

Leaf == {"device", "button", "pos", "margin"}
Value == 0..2               \* 0: absent, or the default
Config == [Leaf -> Value]
Bind == Value \X Value      \* <<0, 0>> is no bind

ASSUME SettingsAssumption ==
    /\ Chosen \subseteq Value /\ PageBinds \subseteq Bind /\ CliBinds \subseteq Bind \ {<<0, 0>>}
    /\ {MaxEdits, MaxCaptures, MaxStarts, MaxFaults} \subseteq Nat

VARIABLES
    disk,               \* the file: "absent", "malformed" or "good", and what it says
    stamp,              \* when it was last modified, 0 while it is absent
    older,              \* is there a settings file of the days beside the executable?
    lock,               \* who holds the write mutex
    pc, cause, copy,    \* the overlay: its step, why it saves, what it read to merge into
    live, baseline,     \* config and saved_config
    settings_changed, blackbox_changed, retry, \* settings_changed_at, blackbox_changed_at, next_save_retry
    seen, sample,       \* binds_read_at, and a modification time just read
    cli, cli_bind, cli_copy,    \* the --bind process
    edits,              \* what the driver changed in the overlay and is not saved yet
    truth,              \* the last value anybody successfully saved, leaf by leaf
    load_stamp, blind,  \* was the file written between the overlay's load and its first look?
    overrun,            \* did a migration replace a file already written?
    edited, captured, starts, faults

overlayVars == <<pc, cause, copy, live, baseline, settings_changed, blackbox_changed, retry,
                 seen, sample, edits, load_stamp, blind>>
cliVars == <<cli, cli_bind, cli_copy>>
fileVars == <<disk, stamp, older, truth, overrun>>
counts == <<edited, captured, starts, faults>>
vars == <<overlayVars, cliVars, fileVars, lock, counts>>

Default == [l \in Leaf |-> 0]
OlderConfig == [l \in Leaf |-> 1]
Unchanged == -1
BindOf(c) == <<c["device"], c["button"]>>
WithBind(c, b) == [c EXCEPT !["device"] = b[1], !["button"] = b[2]]

(* OverlayConfig::load: a file that does not parse is an error, never the  *)
(* defaults; with no file, the older one.                                  *)
(* A slip: what cannot be parsed is taken for the defaults. *)
AlwaysReadable == TRUE
Readable == disk.state # "malformed"
Load == CASE disk.state = "good" -> disk.cfg
          [] disk.state = "absent" /\ older -> OlderConfig
          [] OTHER -> Default
Migrates == disk.state = "absent" /\ older
Good(c) == [state |-> "good", cfg |-> c]

(* apply_toml_changes: a leaf the overlay did not change keeps what the    *)
(* file says.                                                              *)
(* A slip: the whole copy is written. *)
MergeAll(before, after, target) == after
Merge(before, after, target) ==
    [l \in Leaf |-> IF before[l] = after[l] THEN target[l] ELSE after[l]]

Init ==
    /\ \/ disk = Good(Default) /\ older = FALSE /\ stamp = 1
       \/ disk = [state |-> "absent", cfg |-> Default] /\ older \in BOOLEAN /\ stamp = 0
    /\ lock = "free"
    /\ pc = "down" /\ cause = "none" /\ copy = Default /\ live = Default /\ baseline = Default
    /\ settings_changed = FALSE /\ blackbox_changed = FALSE /\ retry = FALSE
    /\ seen = 0 /\ sample = 0
    /\ cli = "off" /\ cli_bind = <<0, 0>> /\ cli_copy = Default
    /\ edits = [l \in Leaf |-> Unchanged] /\ truth = Load
    /\ load_stamp = 0 /\ blind = FALSE /\ overrun = FALSE
    /\ edited = 0 /\ captured = 0 /\ starts = 0 /\ faults = 0

-------------------------------------------------------------------------------
(* save_to_unlocked: one rename over the old file.                         *)
Write(c) == disk' = Good(c) /\ stamp' = stamp + 1

Down ==
    /\ pc' = "down" /\ cause' = "none" /\ copy' = Default /\ live' = Default /\ baseline' = Default
    /\ settings_changed' = FALSE /\ blackbox_changed' = FALSE /\ retry' = FALSE
    /\ seen' = 0 /\ sample' = 0 /\ load_stamp' = 0 /\ blind' = FALSE
    /\ edits' = [l \in Leaf |-> Unchanged]

(* start_overlay: the file is loaded without the mutex; one that cannot be *)
(* read leaves the overlay on defaults.                                    *)
Start ==
    /\ pc = "down" /\ starts < MaxStarts
    /\ starts' = starts + 1
    /\ live' = Load /\ baseline' = Load /\ load_stamp' = stamp
    /\ pc' = IF Migrates THEN "migrating" ELSE "starting"
    /\ UNCHANGED <<cause, copy, settings_changed, blackbox_changed, retry, seen, sample, edits,
                   blind, cliVars, fileVars, lock, edited, captured, faults>>

(* migrate: what was read beside the executable is written in place, and   *)
(* the older file renamed.                                                 *)
Migrate ==
    /\ pc = "migrating" /\ lock = "free"
    /\ Write(live) /\ older' = FALSE
    /\ overrun' = (overrun \/ disk.state # "absent")
    /\ load_stamp' = stamp' /\ pc' = "starting"
    /\ UNCHANGED <<truth, cause, copy, live, baseline, settings_changed, blackbox_changed, retry,
                   seen, sample, edits, blind, cliVars, lock, counts>>

(* Best effort: a mutex not had in time, or a failed write, is a note.     *)
MigrateFails ==
    /\ pc = "migrating"
    /\ \/ lock # "free" /\ faults' = faults
       \/ faults < MaxFaults /\ faults' = faults + 1
    /\ pc' = "starting"
    /\ UNCHANGED <<cause, copy, live, baseline, settings_changed, blackbox_changed, retry, seen, sample,
                   edits, load_stamp, blind, cliVars, fileVars, lock, edited, captured, starts>>

(* OverlayApp::new, once the licence step is done: the file's time is read *)
(* here, its content was read by Start.                                    *)
Ready ==
    /\ pc = "starting"
    /\ pc' = "run" /\ seen' = stamp
    /\ blind' = (stamp # load_stamp)
    /\ UNCHANGED <<cause, copy, live, baseline, settings_changed, blackbox_changed, retry, sample,
                   edits, load_stamp, cliVars, fileVars, lock, counts>>

-------------------------------------------------------------------------------
(* The driver changes something; the frame that takes the change also      *)
(* starts the timer, or the save, that goes with it.                       *)
Edit(new) ==
    /\ pc = "run" /\ edited < MaxEdits /\ edited' = edited + 1
    /\ live' = new
    /\ edits' = [l \in Leaf |-> IF new[l] # baseline[l] THEN new[l] ELSE Unchanged]
    /\ UNCHANGED <<copy, baseline, seen, sample, load_stamp, blind, cliVars, fileVars, lock,
                   captured, starts, faults>>

(* The Binds page: a control pressed, or the bind cleared.                 *)
EditBind(b) ==
    /\ Edit(WithBind(live, b))
    /\ settings_changed' = TRUE
    /\ UNCHANGED <<pc, cause, blackbox_changed, retry>>

(* save_blackbox_if_settled sees the black box's settings differ.          *)
EditMargin(v) ==
    /\ v # live["margin"]
    /\ Edit([live EXCEPT !["margin"] = v])
    /\ blackbox_changed' = TRUE
    /\ UNCHANGED <<pc, cause, settings_changed, retry>>

(* A panel dropped: persist at once, unless a failed save still waits.     *)
EditPos(v) ==
    /\ Edit([live EXCEPT !["pos"] = v])
    /\ IF retry THEN UNCHANGED <<pc, cause>> ELSE pc' = "waiting" /\ cause' = "drag"
    /\ UNCHANGED <<settings_changed, blackbox_changed, retry>>

-------------------------------------------------------------------------------
(* persist and save_changes.                                               *)
Due(why) == CASE why = "settings" -> settings_changed
              [] why = "blackbox" -> blackbox_changed
              [] why = "retry" -> retry
              [] why = "exit" -> TRUE

BeginSave(why) ==
    /\ pc = "run" /\ Due(why)
    /\ pc' = "waiting" /\ cause' = why
    /\ UNCHANGED <<copy, live, baseline, settings_changed, blackbox_changed, retry, seen, sample, edits,
                   load_stamp, blind, cliVars, fileVars, lock, counts>>

TakeLock ==
    /\ pc = "waiting" /\ lock = "free"
    /\ pc' = "locked" /\ lock' = "overlay"
    /\ UNCHANGED <<cause, copy, live, baseline, settings_changed, blackbox_changed, retry, seen, sample,
                   edits, load_stamp, blind, cliVars, fileVars, counts>>

LockAfter(holder) == IF lock = holder THEN "free" ELSE lock

(* A slip: a failed save is reported and forgotten. *)
NoRetry == FALSE
RetryAfterFailure == TRUE

(* The save failed: tried again in a second; on the way out there is no    *)
(* second try.                                                             *)
GiveUp ==
    IF cause = "exit" THEN Down
    ELSE /\ pc' = "run" /\ cause' = "none" /\ copy' = Default
         /\ retry' = RetryAfterFailure
         /\ UNCHANGED <<live, baseline, settings_changed, blackbox_changed, seen, sample, edits,
                        load_stamp, blind>>

(* CONFIG_LOCK_WAIT_MS passes while the other process holds the mutex.     *)
LockTimeout ==
    /\ pc = "waiting" /\ lock = "cli"
    /\ GiveUp
    /\ UNCHANGED <<cliVars, fileVars, lock, counts>>

(* The file as it is now, migrated on the way if it is not there yet.      *)
ReadForMerge ==
    /\ pc = "locked" /\ Readable
    /\ pc' = "loaded" /\ copy' = Load
    /\ IF Migrates THEN Write(OlderConfig) /\ older' = FALSE ELSE UNCHANGED <<disk, stamp, older>>
    /\ UNCHANGED <<cause, live, baseline, settings_changed, blackbox_changed, retry, seen, sample, edits,
                   load_stamp, blind, cliVars, truth, overrun, lock, counts>>

ReadFails ==
    /\ pc = "locked" /\ ~ Readable
    /\ GiveUp /\ lock' = "free"
    /\ UNCHANGED <<cliVars, fileVars, counts>>

WriteMerged ==
    /\ pc = "loaded"
    /\ Write(Merge(baseline, live, copy))
    /\ truth' = [l \in Leaf |-> IF edits[l] # Unchanged THEN edits[l] ELSE truth[l]]
    /\ lock' = "free"
    /\ IF cause = "exit" THEN Down
       ELSE /\ pc' = "run" /\ cause' = "none" /\ copy' = Default
            /\ baseline' = live /\ retry' = FALSE
            /\ settings_changed' = (settings_changed /\ cause # "settings")
            /\ blackbox_changed' = (blackbox_changed /\ cause # "blackbox")
            /\ edits' = [l \in Leaf |-> Unchanged]
            /\ UNCHANGED <<live, seen, sample, load_stamp, blind>>
    /\ UNCHANGED <<cliVars, older, overrun, counts>>

WriteFails ==
    /\ pc = "loaded" /\ faults < MaxFaults /\ faults' = faults + 1
    /\ GiveUp /\ lock' = "free"
    /\ UNCHANGED <<cliVars, fileVars, edited, captured, starts>>

-------------------------------------------------------------------------------
(* reload_binds_if_changed: the file's time, then its content.             *)
Sample ==
    /\ pc = "run" /\ stamp # 0 /\ stamp # seen
    /\ pc' = "sampled" /\ sample' = stamp
    /\ UNCHANGED <<cause, copy, live, baseline, settings_changed, blackbox_changed, retry, seen, edits,
                   load_stamp, blind, cliVars, fileVars, lock, counts>>

(* reload_clean_binds: a bind changed here and not saved yet stays.        *)
(* A slip: the file always wins. *)
AlwaysImportable(mine, saved) == TRUE
(* A slip: only a bind the overlay does not have yet is taken. *)
UnboundImportable(mine, saved) == mine = <<0, 0>>
Importable(mine, saved) == mine = saved

Reload ==
    /\ pc = "sampled"
    /\ pc' = "run" /\ sample' = 0
    /\ seen' = IF Readable THEN sample ELSE seen
    /\ IF Readable /\ Importable(BindOf(live), BindOf(baseline))
       THEN /\ live' = WithBind(live, BindOf(Load))
            /\ baseline' = WithBind(baseline, BindOf(Load))
       ELSE UNCHANGED <<live, baseline>>
    /\ blind' = (blind /\ ~ Readable)
    /\ UNCHANGED <<cause, copy, settings_changed, blackbox_changed, retry, edits, load_stamp,
                   cliVars, fileVars, lock, counts>>

-------------------------------------------------------------------------------
(* capture_bind and OverlayConfig::update.                                 *)
Capture(b) ==
    /\ cli = "off" /\ captured < MaxCaptures /\ captured' = captured + 1
    /\ cli' = "waiting" /\ cli_bind' = b
    /\ UNCHANGED <<cli_copy, overlayVars, fileVars, lock, edited, starts, faults>>

CliOff == cli' = "off" /\ cli_bind' = <<0, 0>> /\ cli_copy' = Default

CliLock ==
    /\ cli = "waiting"
    /\ \/ lock = "free" /\ lock' = "cli" /\ cli' = "locked" /\ UNCHANGED <<cli_bind, cli_copy>>
       \/ lock = "overlay" /\ CliOff /\ UNCHANGED lock
    /\ UNCHANGED <<overlayVars, fileVars, counts>>

CliRead ==
    /\ cli = "locked"
    /\ IF Readable
       THEN /\ cli' = "loaded" /\ cli_copy' = Load
            /\ IF Migrates THEN Write(OlderConfig) /\ older' = FALSE ELSE UNCHANGED <<disk, stamp, older>>
            /\ UNCHANGED <<cli_bind, lock>>
       ELSE CliOff /\ lock' = "free" /\ UNCHANGED <<disk, stamp, older>>
    /\ UNCHANGED <<overlayVars, truth, overrun, counts>>

CliWrite ==
    /\ cli = "loaded"
    /\ Write(WithBind(cli_copy, cli_bind)) /\ truth' = WithBind(truth, cli_bind)
    /\ CliOff /\ lock' = "free"
    /\ UNCHANGED <<overlayVars, older, overrun, counts>>

-------------------------------------------------------------------------------
(* A process dies; Windows hands its mutex on as abandoned.                *)
Fault == faults < MaxFaults /\ faults' = faults + 1 /\ UNCHANGED <<edited, captured, starts>>

OverlayCrash ==
    /\ Fault /\ pc # "down" /\ Down
    /\ lock' = LockAfter("overlay")
    /\ UNCHANGED <<cliVars, fileVars>>

CliCrash ==
    /\ Fault /\ cli # "off" /\ CliOff
    /\ lock' = LockAfter("cli")
    /\ UNCHANGED <<overlayVars, fileVars>>

(* Somebody editing the file by hand saves it with a slip in it, and later *)
(* mends it.  Not while a program is between its read and its write.       *)
HandDamage ==
    /\ Fault /\ disk.state = "good" /\ lock = "free"
    /\ disk' = [disk EXCEPT !.state = "malformed"] /\ stamp' = stamp + 1
    /\ UNCHANGED <<overlayVars, cliVars, older, truth, overrun, lock>>

HandRepair ==
    /\ disk.state = "malformed" /\ lock = "free"
    /\ Write(disk.cfg)
    /\ UNCHANGED <<overlayVars, cliVars, older, truth, overrun, lock, counts>>

Autosave == \E why \in {"settings", "blackbox", "retry"} : BeginSave(why)
SaveStep == TakeLock \/ LockTimeout \/ ReadForMerge \/ ReadFails \/ WriteMerged
StartStep == Migrate \/ MigrateFails \/ Ready
CliStep == CliLock \/ CliRead \/ CliWrite

Next ==
    \/ Start \/ StartStep
    \/ \E b \in PageBinds : EditBind(b)
    \/ \E v \in Chosen : EditMargin(v) \/ EditPos(v)
    \/ Autosave \/ BeginSave("exit")
    \/ SaveStep \/ WriteFails \/ Sample \/ Reload
    \/ \E b \in CliBinds : Capture(b)
    \/ CliStep
    \/ OverlayCrash \/ CliCrash \/ HandDamage \/ HandRepair

Spec == Init /\ [][Next]_vars

(* A process that runs goes on running; every frame looks at each timer,   *)
(* at a waiting retry and, every two seconds, at the file.                 *)
FairSpec ==
    /\ Spec
    /\ WF_vars(StartStep) /\ WF_vars(SaveStep) /\ WF_vars(CliStep) /\ WF_vars(Reload)
    /\ SF_vars(Sample) /\ SF_vars(Autosave)

-------------------------------------------------------------------------------
TypeOK ==
    /\ disk \in [state : {"absent", "malformed", "good"}, cfg : Config] /\ stamp \in Nat
    /\ older \in BOOLEAN /\ lock \in {"free", "overlay", "cli"}
    /\ pc \in {"down", "migrating", "starting", "run", "waiting", "locked", "loaded", "sampled"}
    /\ cause \in {"none", "settings", "blackbox", "retry", "drag", "exit"}
    /\ {copy, live, baseline, cli_copy, truth} \subseteq Config
    /\ {settings_changed, blackbox_changed, retry, blind, overrun} \subseteq BOOLEAN
    /\ {seen, sample, load_stamp} \subseteq 0..stamp
    /\ cli \in {"off", "waiting", "locked", "loaded"} /\ cli_bind \in Bind
    /\ edits \in [Leaf -> Value \cup {Unchanged}]
    /\ (pc \in {"locked", "loaded"}) = (lock = "overlay")
    /\ (cli \in {"locked", "loaded"}) = (lock = "cli")

(* Nothing anybody saved is undone by the other writer: leaf by leaf the   *)
(* file says what was last saved, whichever process wrote it and whatever  *)
(* died in between.  The one exception is an overlay that began to migrate *)
(* before the other process wrote the new file (migrate, config.rs 1557).  *)
FileIsTruth == disk.state = "good" /\ ~ overrun => disk.cfg = truth

(* What the driver changed and the overlay has not saved yet is still what *)
(* the overlay works with: no look at the file takes it back               *)
(* (reload_clean_binds, app.rs 1568).                                      *)
PendingEditsSurvive == \A l \in Leaf : edits[l] # Unchanged => live[l] = edits[l]

(* A file that does not parse is left for its owner: no program writes     *)
(* over it (load, save_changes and update, config.rs 1419-1511), again but *)
(* for a migration begun before there was a file.                          *)
DamagedFileKept ==
    [][disk.state = "malformed" /\ disk' # disk /\ ~ overrun'
          => disk'.cfg = disk.cfg /\ lock = "free"]_vars

(* Every change reaches the file, through failed writes, a mutex not had   *)
(* and a retry, unless the overlay ends first or the file stays unreadable *)
(* (persist, app.rs 438).                                                  *)
EditsReachDisk ==
    \A l \in Leaf : edits[l] # Unchanged ~> edits[l] = Unchanged \/ disk.state = "malformed"

(* The overlay is down, cannot know better, or has the file's bind.        *)
BindsInForce ==
    \/ pc = "down" \/ blind \/ disk.state # "good"
    \/ \E l \in {"device", "button"} : edits[l] # Unchanged
    \/ BindOf(live) = BindOf(disk.cfg)

(* A running overlay works with the binds the file holds, unless it has    *)
(* one of its own to save; the exception is a file written between its     *)
(* load and its first look at the file's time (OverlayApp::new, app.rs     *)
(* 405), which is not looked at again until it is written once more.       *)
BindsReachOverlay == []<>BindsInForce

===============================================================================
