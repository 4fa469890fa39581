------------------------------ MODULE BootCmds ------------------------------
(***************************************************************************)
(* The commands of mtk_cmd.c with which a boot script decides how many     *)
(* blocks to copy and whether to copy them at all: image_blks, image_check *)
(* and uboot_check.  They report through the environment.                  *)
(***************************************************************************)
EXTENDS Integers

CONSTANTS BlkSizes, ImgSizes,   \* arguments, and sizes in image headers
          Modulus                  \* bound: the modulus of unsigned long (2^32)

\* They are unsigned long.
ASSUME ModulusAssumption ==
  Modulus \in Nat \ {0} /\ BlkSizes \subseteq 0 .. Modulus - 1 /\ ImgSizes \subseteq 0 .. Modulus - 1

HeaderSize == 2                 \* sizeof(image_header_t), scaled

VARIABLES
  loaded,      \* at load_addr: kind and size of the image
  img_blks,    \* the variable of the environment; 0 is "none to copy"
  img_align_size, \* the same in bytes
  img_result, uboot_result,
  cmd_for      \* block size of the last image_blks that was not refused, and
               \* the size it was for; block size 0: none since the last load

cmdVars == <<loaded, img_blks, img_align_size, img_result, uboot_result, cmd_for>>

Images == [kind : {"uimage", "part", "junk"}, size : ImgSizes]
-----------------------------------------------------------------------------
CmdInit ==
  /\ loaded \in Images
  /\ img_blks = 0 /\ img_align_size = 0 /\ img_result = "unset" /\ uboot_result = "unset"
  /\ cmd_for = [blk |-> 0, size |-> 0]

\* A script loads an image first; the variables keep what the last one left.
Load ==
  /\ loaded' \in Images
  /\ cmd_for' = [blk |-> 0, size |-> 0]
  /\ UNCHANGED <<img_blks, img_align_size, img_result, uboot_result>>

\* Faulty variant of BlocksOf: a started block is left out.
BlocksOfWhole(size, blk) == size \div blk

BlocksOf(size, blk) == ((size + blk - 1) % Modulus) \div blk

\* Faulty variant of BadMagic: an image that is none leaves the variable.
BadMagicKept == img_blks

BadMagic == 0

\* Of an image with a header the argument, if there is one (an argument of 0 is
\* refused and changes nothing), goes before the header's size; a part
\* of the preloader ("part") has the size the variable filesize gives, of
\* whatever file was loaded last, or 0 when it is not set.
SizeOf(arg, filesize) ==
  CASE loaded.kind = "uimage" -> IF arg > 0 THEN arg ELSE (loaded.size + HeaderSize) % Modulus
    [] loaded.kind = "part" -> filesize
    [] OTHER -> 0

\* A block size of 0 is refused and leaves the variables alone, with success.
do_read_image_blks ==
  \E blk \in BlkSizes, arg, filesize \in ImgSizes \cup {0} :
    LET size == SizeOf(arg, filesize)
    IN /\ blk > 0
       /\ img_blks' = IF loaded.kind = "junk" THEN BadMagic ELSE BlocksOf(size, blk)
       /\ img_align_size' = (img_blks' * blk) % Modulus
       /\ cmd_for' = [blk |-> blk, size |-> size]
       /\ UNCHANGED <<loaded, img_result, uboot_result>>

do_image_check ==
  /\ img_result' = IF loaded.kind = "uimage" THEN "good" ELSE "bad"
  /\ UNCHANGED <<loaded, img_blks, img_align_size, uboot_result, cmd_for>>

do_uboot_check ==
  /\ uboot_result' = IF loaded.kind = "part" THEN "good" ELSE "bad"
  /\ UNCHANGED <<loaded, img_blks, img_align_size, img_result, cmd_for>>

CmdNext == Load \/ do_read_image_blks \/ do_image_check \/ do_uboot_check

CmdSpec == CmdInit /\ [][CmdNext]_cmdVars
-----------------------------------------------------------------------------
\* The blocks a script copies, by their count or their bytes, hold all of the
\* image and no more than the rest of its last block; of something that is no
\* image it copies nothing, also when the variables still held a count.  A size
\* within a block of 2^32 is left out: there the sum wraps.
BlocksHoldImage ==
  cmd_for.blk > 0 /\ cmd_for.size + cmd_for.blk <= Modulus =>
    /\ img_blks * cmd_for.blk \in cmd_for.size .. cmd_for.size + cmd_for.blk - 1
    /\ img_align_size = img_blks * cmd_for.blk
=============================================================================
