------------------------------ MODULE AbUpdate ------------------------------
(***************************************************************************)
(* The update of the system in two root partitions: update.sh, called by   *)
(* swupdate before and after it unpacks the archive into /dev/update, the  *)
(* U-Boot environment that says which partition is booted, and the power   *)
(* that may go at any step.                                                *)
(***************************************************************************)
EXTENDS Integers

VARIABLES
  rootfs,       \* what each partition holds: "old", "new", "empty", "mixed" or "part"
  boot_part,    \* the stored environment; 0: torn by a loss of power
  running,      \* the partition of root= in /proc/cmdline; 0: nothing runs
  dev_update,   \* where the link /dev/update leads; 0: nowhere
  stage,        \* of the update: idle, preinst, unpack, postinst, setenv
  usual         \* every update so far began in the system boot_part names

abVars == <<rootfs, boot_part, running, dev_update, stage, usual>>

Parts    == {1, 2}
Bootable(p) == rootfs[p] \in {"old", "new", "mixed"}
-----------------------------------------------------------------------------
AbInit ==
  /\ rootfs \in [Parts -> {"old", "empty"}] /\ rootfs[1] = "old"
  /\ boot_part = 1 /\ running = 1 /\ dev_update = 0 /\ stage = "idle" /\ usual = TRUE

\* Faulty variant of UpdatePart: the other one than will be booted next.
UpdatePartByEnv == 3 - boot_part

\* get_current_root_device, get_update_part: by the last character of root=.
UpdatePart == IF running = 1 THEN 2 ELSE 1

StartUpdate ==
  /\ stage = "idle" /\ running # 0 /\ stage' = "preinst"
  /\ usual' = (usual /\ running = boot_part)
  /\ UNCHANGED <<rootfs, boot_part, running, dev_update>>

\* preinst: the results of umount and mke2fs are not looked at.  The script
\* succeeds because ln does; mke2fs may fail before or after it wrote.
Preinst ==
  /\ stage = "preinst" /\ stage' = "unpack"
  /\ \E c \in {"empty", "part", rootfs[UpdatePart]} : rootfs' = [rootfs EXCEPT ![UpdatePart] = c]
  /\ dev_update' = UpdatePart
  /\ UNCHANGED <<boot_part, running, usual>>

\* The archive handler, external: it mounts /dev/update and unpacks.
Unpack ==
  /\ stage = "unpack"
  /\ \/ /\ rootfs[dev_update] # "part" /\ stage' = "postinst"
        /\ rootfs' = [rootfs EXCEPT ![dev_update] = IF @ = "empty" THEN "new" ELSE "mixed"]
     \/ stage' = "idle" /\ rootfs' = [rootfs EXCEPT ![dev_update] = "part"]
  /\ UNCHANGED <<boot_part, running, dev_update, usual>>

\* Faulty variant of Unpacked: the variable is set although the archive failed.
UnpackedOrNot == stage \in {"postinst", "idle"} /\ dev_update # 0

Unpacked == stage = "postinst"

\* postinst: fw_setenv writes over the one copy of the environment.
Postinst ==
  /\ Unpacked /\ stage' = "setenv" /\ boot_part' = 0
  /\ UNCHANGED <<rootfs, running, dev_update, usual>>

Setenv ==
  /\ stage = "setenv" /\ stage' = "idle" /\ boot_part' = UpdatePart
  /\ UNCHANGED <<rootfs, running, dev_update, usual>>

\* Power goes, at any step; what was being written is left half written.
PowerOff ==
  /\ running # 0 /\ running' = 0
  /\ dev_update' = 0 /\ stage' = "idle"
  /\ rootfs' = IF stage \in {"preinst", "unpack"}
               THEN [rootfs EXCEPT ![UpdatePart] = "part"] ELSE rootfs
  /\ UNCHANGED <<boot_part, usual>>

\* bootcmd boots the partition boot_part names; boot_pri and boot_sec set it
\* by hand for this boot and do not save it.  Without a whole environment
\* U-Boot has its compiled-in one, and none of these commands in it: there
\* bootcmd only runs itself (CONFIG_BOOTCOMMAND, mt7623-bpi-r2-emmc.h:368).
Boot(p) ==
  /\ running = 0 /\ boot_part # 0 /\ Bootable(p) /\ running' = p
  /\ UNCHANGED <<rootfs, boot_part, dev_update, stage, usual>>

bootcmd == Boot(boot_part)
boot_pri == Boot(1)
boot_sec == Boot(2)

AbNext ==
  \/ StartUpdate \/ Preinst \/ Unpack \/ Postinst \/ Setenv
  \/ PowerOff \/ bootcmd \/ boot_pri \/ boot_sec

AbSpec == AbInit /\ [][AbNext]_abVars
-----------------------------------------------------------------------------
\* The system that runs is never formatted or written to by an update, also
\* after boot_part was switched without a reboot or overridden by hand.
RunningSpared ==
  [][running # 0 /\ running' = running => rootfs'[running] = rootfs[running]]_abVars

\* Whatever step of the update fails and wherever power goes, boot_part names
\* a system that boots, but for one window: a loss of power while fw_setenv
\* (update.sh:65) writes the only copy of the environment leaves a board that
\* boots nothing.  Nothing else does that, and then both systems are whole,
\* so that a new environment is all it takes.  All of this as long as every
\* update began in the system boot_part names: not after one that was not yet
\* rebooted into, and not in a system that was chosen by hand.
BootsUnlessTorn ==
  usual => \/ boot_part \in Parts /\ Bootable(boot_part)
           \/ /\ boot_part = 0 /\ (stage = "setenv" \/ running = 0)
              /\ \A p \in Parts : Bootable(p)
=============================================================================
