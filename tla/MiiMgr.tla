------------------------------- MODULE MiiMgr -------------------------------
(***************************************************************************)
(* mii_mgr.c: the accesses to PHY registers (16 bits) and switch registers *)
(* (32 bits, in three accesses to PHY 31: page, low half, high half), and  *)
(* the commands mdio.r, mdio.w and mdio.wb.  The MDIO controller works on  *)
(* one access at a time and may be late, by more than the five seconds     *)
(* the driver waits, or hang.                                              *)
(***************************************************************************)
EXTENDS Integers, SequencesExt

CONSTANTS Pages,           \* switch registers, one to a page
          Half,            \* the values of half a register, 16 bits in the chip
          Junk,            \* what a local variable holds that was not written
          Writes           \* bound: the values that are written

Values == [low : Half, high : Half]

ASSUME MiiAssumption == 0 \in Pages /\ 0 \in Half /\ Junk \notin Half /\ Writes \subseteq Values

VARIABLES
  mdio,       \* the controller and the registers behind it
  mii,        \* the access that is made
  mii_seen    \* what the switch registers could be when it began; what it returned
miiVars == <<mdio, mii, mii_seen>>

\* An access to the controller: PHY 31 has the page in register 0x1f, the low
\* half of the register in one of 0 to 15 and the high half in 16.
Word(reg, write, data) == [reg |-> reg, write |-> write, data |-> data]

\* Faulty variant of ReadParts: the page is left as it was.
ReadPartsHere(r) == <<Word("low", FALSE, 0), Word("high", FALSE, 0)>>

ReadParts(r)     == <<Word("page", TRUE, r), Word("low", FALSE, 0), Word("high", FALSE, 0)>>

\* Faulty variant of WriteParts: the high half first.
WritePartsHigh(r, v) ==
  <<Word("page", TRUE, r), Word("high", TRUE, v.high), Word("low", TRUE, v.low)>>

WriteParts(r, v) ==
  <<Word("page", TRUE, r), Word("low", TRUE, v.low), Word("high", TRUE, v.high)>>

\* What a register is, or will be when the controller is done.
Possible(r) ==
  {mdio.sw[r]} \cup
    (IF mdio.busy /\ mdio.now = Word("high", TRUE, mdio.now.data) /\ mdio.page = r
     THEN {[low |-> mdio.low, high |-> mdio.now.data]} ELSE {})

\* mii_mgr_read, mii_mgr_write, and mdio.wb, which is both for one bit.
BeginMii(kind, r, v) ==
  /\ mii.pc = "idle"
  /\ mii' = [pc |-> "wait_idle", kind |-> kind, r |-> r, v |-> v,
             todo |-> IF kind = "write" THEN WriteParts(r, v) ELSE ReadParts(r),
             got |-> [low |-> Junk, high |-> Junk]]
  /\ mii_seen' = [could |-> [p \in Pages |-> Possible(p)], told |-> "none"]
  /\ UNCHANGED mdio

\* __mii_mgr_read, __mii_mgr_write: the controller must be done with the last
\* access ...
Issue ==
  /\ mii.pc = "wait_idle" /\ ~mdio.busy
  /\ mdio' = [mdio EXCEPT !.busy = TRUE, !.now = Head(mii.todo)]
  /\ mii' = [mii EXCEPT !.pc = "wait_done"] /\ UNCHANGED mii_seen

\* ... and with this one.  Its data are there only for a read.
Got == IF Head(mii.todo).write THEN mii.got
       ELSE [mii.got EXCEPT ![Head(mii.todo).reg] = mdio.data]

\* Faulty variant of WithBit: the other half is not kept.
WithBitOnly(got, v) == [low |-> v.low, high |-> 0]

\* mdio.wb: one bit, here the low half, is set to the value.
WithBit(got, v) == [got EXCEPT !.low = v.low]

Returns(told) ==
  /\ mii' = [mii EXCEPT !.pc = "idle", !.todo = <<>>, !.got = Got]
  /\ mii_seen' = [mii_seen EXCEPT !.told = told]

PartDone ==
  /\ mii.pc = "wait_done" /\ ~mdio.busy
  /\ IF Len(mii.todo) > 1
     THEN /\ mii' = [mii EXCEPT !.pc = "wait_idle", !.todo = Tail(@), !.got = Got]
          /\ UNCHANGED mii_seen
     ELSE IF mii.kind = "wb"
     THEN /\ mii' = [mii EXCEPT !.pc = "wait_idle", !.kind = "write", !.v = WithBit(Got, @),
                       !.got = Got, !.todo = WriteParts(mii.r, WithBit(Got, mii.v))]
          /\ UNCHANGED mii_seen
     ELSE Returns("ok")
  /\ UNCHANGED mdio

\* Faulty variant of TimesOut: only the first wait has an end.
TimesOutIdle ==
  /\ mii.pc = "wait_idle" /\ mdio.busy
  /\ mii' = [mii EXCEPT !.pc = "idle", !.todo = <<>>]
  /\ mii_seen' = [mii_seen EXCEPT !.told = "failed"]
  /\ UNCHANGED mdio

\* get_timer is beyond 5 * CFG_HZ.
TimesOut ==
  /\ mii.pc \in {"wait_idle", "wait_done"} /\ mdio.busy
  /\ mii' = [mii EXCEPT !.pc = "idle", !.todo = <<>>]
  /\ mii_seen' = [mii_seen EXCEPT !.told = "failed"]
  /\ UNCHANGED mdio

\* The controller: the low half waits in the switch for the high one, and a
\* read of the low half keeps the high half for the next.
Serve ==
  /\ mdio.busy
  /\ LET w == mdio.now  s == mdio.sw[mdio.page]  idle == [mdio EXCEPT !.busy = FALSE]
     IN mdio' = CASE w.reg = "page" -> [idle EXCEPT !.page = w.data]
                  [] w.reg = "low" /\ w.write  -> [idle EXCEPT !.low = w.data]
                  [] w.reg = "low" /\ ~w.write -> [idle EXCEPT !.data = s.low, !.high = s.high]
                  [] w.reg = "high" /\ w.write ->
                       [idle EXCEPT !.sw[mdio.page] = [low |-> mdio.low, high |-> w.data]]
                  [] w.reg = "high" /\ ~w.write -> [idle EXCEPT !.data = mdio.high]
  /\ UNCHANGED <<mii, mii_seen>>

Cleared == [low |-> 0, high |-> 0]

MiiInit ==
  /\ mdio = [busy |-> FALSE, now |-> Word("page", TRUE, 0), page |-> 0,
             sw |-> [p \in Pages |-> Cleared], low |-> 0, high |-> 0, data |-> 0]
  /\ mii_seen = [could |-> [p \in Pages |-> {Cleared}], told |-> "none"]
  /\ mii = [pc |-> "idle", kind |-> "read", r |-> 0, v |-> Cleared,
            todo |-> <<>>, got |-> [low |-> Junk, high |-> Junk]]

MiiWork == Issue \/ PartDone \/ TimesOut

MiiNext ==
  \/ \E kind \in {"read", "write", "wb"}, r \in Pages, v \in Writes :
       BeginMii(kind, r, v)
  \/ MiiWork \/ Serve
-----------------------------------------------------------------------------
\* What an access reports is so: a write that returns 1 is in its register,
\* both halves, and a read that returns 1 gives the register - also when an
\* earlier access was left behind, half done or still in the controller.
MiiTruth ==
  mii.pc = "idle" /\ mii_seen.told = "ok" =>
    /\ mii.kind = "read" => mii.got = mdio.sw[mii.r]
    /\ mii.kind = "write" => mdio.sw[mii.r] = mii.v

\* At any time a switch register is what it was or what is being written to
\* it, never half of each, and a register that is not written stays - through
\* timeouts, and writes that arrive after their call has failed.
NoHalfWrites ==
  \A r \in Pages : mdio.sw[r] \in mii_seen.could[r]
                     \cup (IF mii.kind = "write" /\ mii.r = r THEN {mii.v} ELSE {})

\* mdio.wb, done, has changed its bit and nothing else.
OneBitOnly ==
  mii.pc = "idle" /\ mii_seen.told = "ok" /\ mii.got.high # Junk /\ mii.kind = "write" =>
    mdio.sw[mii.r].high = mii.got.high
=============================================================================
