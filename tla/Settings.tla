------------------------------ MODULE Settings ------------------------------
(***************************************************************************)
(* The settings of the radio: volume, enhancer, start-up playback and      *)
(* spatial processing level (src/user/control.c), the pages that change    *)
(* them (src/user/cgi.c) and the registers of the decoder chip they are    *)
(* for (src/user/vs1053.c).  They are kept in RAM and in the last page of  *)
(* the flash, which is saved by reading it, changing some of its bytes,    *)
(* erasing it and writing it back.  No callback runs in between, but the   *)
(* power may be lost before any of these steps and during the write.       *)
(*                                                                         *)
(* The page is three words: version, magic byte and the two volumes; the   *)
(* four bytes of the enhancer; autoplay and the spatial level.  An         *)
(* enhancer setting is one value: its bytes are always moved together.     *)
(***************************************************************************)
EXTENDS Integers

CONSTANTS Volumes,          \* what the slider of the volume form sends
          Enhancers,        \* what the enhancer form sends
          DefaultEnhancer,  \* { 0, 3, 0, 10 }
          ErasedEnhancer,   \* four bytes 0xFF
          ResetEnhancer,    \* SCI_BASS after a reset of the chip
          StackBytes        \* what strtol makes of an unwritten buffer

Byte  == 0..255
Level == 0..3

ASSUME SettingsAssumption ==
  /\ Volumes \subseteq 0..100
  /\ StackBytes \subseteq Byte

VARIABLES
  ram,    \* Control_u8VolumeLeft, ...Right, Control_stEnhancerData, ...
  flash,  \* the last page of the flash
  buf,    \* Control_tstBackupDataRegister
  chip,   \* SCI_VOL, SCI_BASS and the EarSpeaker bits of SCI_MODE
  pc,     \* the next step of the call under way, "idle" without one
  call,   \* the function that saves the page
  before, \* history: the settings when the last call had ended
  after,  \* history: the settings in RAM when the power was lost
  loss    \* history: 0 power lost at rest, 1 during a call, 2 during a write

vars == <<ram, flash, buf, chip, pc, call, before, after, loss>>

AnyEnhancer == Enhancers \cup {DefaultEnhancer, ErasedEnhancer, ResetEnhancer}

Setting == [left: Byte, right: Byte, enh: AnyEnhancer, auto: Byte, level: Byte]
Page    == [head: [magic: BOOLEAN, left: Byte, right: Byte],
            enh:  AnyEnhancer,
            tail: [auto: Byte, level: Byte]]
Chip    == [vol: Byte, enh: AnyEnhancer, level: Level]

(* The initialisers of control.c, and what an invalid page is read as.     *)
Default == [left |-> 0, right |-> 0, enh |-> DefaultEnhancer,
            auto |-> 0, level |-> 0]
ErasedPage == [head |-> [magic |-> FALSE, left |-> 255, right |-> 255],
               enh  |-> ErasedEnhancer,
               tail |-> [auto |-> 255, level |-> 255]]

(* A page with the settings s, and the settings a page stands for.         *)
Image(s)  == [head |-> [magic |-> TRUE, left |-> s.left, right |-> s.right],
              enh  |-> s.enh,
              tail |-> [auto |-> s.auto, level |-> s.level]]
MutantDecode(p) == IF ~p.head.magic THEN Default
                   ELSE [left |-> p.head.left, right |-> p.head.right,
                         enh |-> DefaultEnhancer,
                         auto |-> p.tail.auto, level |-> p.tail.level]
Decode(p) == IF ~p.head.magic THEN Default
             ELSE [left |-> p.head.left, right |-> p.head.right, enh |-> p.enh,
                   auto |-> p.tail.auto, level |-> p.tail.level]

(* The attenuation for a volume, as the uint8 temp of Control_vSetVolume.  *)
Attenuation(v) == (255 - (v * 5) \div 2) % 256

(* VS1053_vSetSpartialProcessing leaves the mode alone for other levels.   *)
SpartialBits(level, bits) == IF level \in Level THEN level ELSE bits

(* The registers after the reset in VS1053_vInit, before any setting.      *)
ChipReset == [vol |-> 0, enh |-> ResetEnhancer, level |-> 0]

(* The page of the factory has no magic byte; the program starts.          *)
Init ==
  /\ flash = ErasedPage
  /\ ram = Default /\ buf = ErasedPage /\ chip = ChipReset
  /\ pc = "load" /\ call = "Control_vInit"
  /\ before = Default /\ after = Default /\ loss = 0

-----------------------------------------------------------------------------
(* The start of the program: user_init calls Control_vInit, then           *)
(* VS1053_vInit.  The page is saved at every start, valid or not.          *)
Control_vInit ==
  /\ pc = "load"
  /\ ram' = Decode(flash)
  /\ buf' = Image(Decode(flash))
  /\ pc' = "erase"
  /\ UNCHANGED <<flash, chip, call, before, after, loss>>

(* The call has ended: what it has set is what a restart must bring back.  *)
Settled == pc' = "idle" /\ before' = ram /\ loss' = 0

VS1053_vInit ==
  /\ pc = "vs1053"
  /\ chip' = [vol   |-> Attenuation(ram.left),
              enh   |-> ram.enh,
              level |-> SpartialBits(ram.level, ChipReset.level)]
  /\ Settled
  /\ UNCHANGED <<ram, flash, buf, call, after>>

-----------------------------------------------------------------------------
(* The steps every function ends with: PREBACKUPDATAREGISTERACTION with    *)
(* the bytes it replaces, and the erase and write of                       *)
(* POSTBACKUPDATAREGISTERACTION.                                           *)
Prepare(fn, page) ==
  /\ buf' = page
  /\ call' = fn
  /\ pc' = "erase"
  /\ UNCHANGED <<flash, before, after, loss>>

EraseSector ==
  /\ pc = "erase"
  /\ flash' = ErasedPage
  /\ pc' = "write"
  /\ UNCHANGED <<ram, buf, chip, call, before, after, loss>>

WritePage ==
  /\ pc = "write"
  /\ flash' = buf
  /\ \/ /\ call = "Control_vInit"
        /\ pc' = "vs1053"
        /\ UNCHANGED <<before, loss>>
     \/ /\ call = "Control_vSetSpartialProcessingLevel"
        /\ pc' = "spartial"
        /\ UNCHANGED <<before, loss>>
     \/ /\ call \in {"Control_vSetVolume", "Control_vSetEnhancer",
                     "Control_vSetAutoStart"}
        /\ Settled
  /\ UNCHANGED <<ram, buf, chip, call, after>>

-----------------------------------------------------------------------------
Control_vSetVolume(v) ==
  /\ ram' = [ram EXCEPT !.left = v, !.right = v]
  /\ chip' = [chip EXCEPT !.vol = Attenuation(v)]
  /\ Prepare("Control_vSetVolume", [flash EXCEPT !.head.left = v])

Control_vSetEnhancer(e) ==
  /\ ram' = [ram EXCEPT !.enh = e]
  /\ chip' = [chip EXCEPT !.enh = e]
  /\ Prepare("Control_vSetEnhancer", [flash EXCEPT !.enh = e])

Control_vSetAutoStart(a) ==
  /\ ram' = [ram EXCEPT !.auto = a]
  /\ Prepare("Control_vSetAutoStart", [flash EXCEPT !.tail.auto = a])
  /\ UNCHANGED chip

MutantLevelIntoAutoStart(l) ==
  /\ ram' = [ram EXCEPT !.level = l]
  /\ Prepare("Control_vSetSpartialProcessingLevel",
             [flash EXCEPT !.tail.auto = l])
  /\ UNCHANGED chip
Control_vSetSpartialProcessingLevel(l) ==
  /\ ram' = [ram EXCEPT !.level = l]
  /\ Prepare("Control_vSetSpartialProcessingLevel",
             [flash EXCEPT !.tail.level = l])
  /\ UNCHANGED chip

(* IndexSpartialCgi tells the chip after the page has been saved.          *)
VS1053_vSetSpartialProcessing ==
  /\ pc = "spartial"
  /\ chip' = [chip EXCEPT !.level = SpartialBits(ram.level, @)]
  /\ Settled
  /\ UNCHANGED <<ram, flash, buf, call, after>>

-----------------------------------------------------------------------------
(* The forms.  A box that is not ticked is not sent at all: httpdFindArg   *)
(* returns -1, which IndexPlaybackCgi takes for a value, and strtol reads  *)
(* a buffer nothing was written to.                                        *)
IndexVolumeCgi    == pc = "idle" /\ \E v \in Volumes : Control_vSetVolume(v)
IndexEnhancerCgi  == pc = "idle" /\ \E e \in Enhancers : Control_vSetEnhancer(e)
IndexSpartialCgi  == /\ pc = "idle"
                     /\ \E l \in Level : Control_vSetSpartialProcessingLevel(l)
IndexPlaybackCgi(ticked) ==
  /\ pc = "idle"
  /\ \E a \in IF ticked THEN {1} ELSE StackBytes : Control_vSetAutoStart(a)

-----------------------------------------------------------------------------
(* The power is lost and comes back: RAM and chip start afresh.            *)
Restart ==
  /\ pc' = "load" /\ call' = "Control_vInit"
  /\ ram' = Default /\ buf' = ErasedPage /\ chip' = ChipReset
  /\ after' = IF pc = "load" THEN after ELSE ram
  /\ UNCHANGED before

PowerLoss ==
  /\ Restart
  /\ loss' = IF pc \in {"idle", "load"} \/ loss = 2 THEN loss ELSE 1
  /\ UNCHANGED flash

(* The power is lost while the words are written, after some of them.      *)
TornWrite ==
  /\ pc = "write"
  /\ \/ flash' = [ErasedPage EXCEPT !.head = buf.head]
     \/ flash' = [ErasedPage EXCEPT !.head = buf.head, !.enh = buf.enh]
  /\ Restart
  /\ loss' = 2

Next ==
  \/ Control_vInit \/ VS1053_vInit
  \/ EraseSector \/ WritePage \/ VS1053_vSetSpartialProcessing
  \/ IndexVolumeCgi \/ IndexEnhancerCgi \/ IndexSpartialCgi
  \/ \E ticked \in BOOLEAN : IndexPlaybackCgi(ticked)
  \/ PowerLoss \/ TornWrite

Spec == Init /\ [][Next]_vars
-----------------------------------------------------------------------------
TypeOK ==
  /\ ram \in Setting /\ before \in Setting /\ after \in Setting
  /\ flash \in Page /\ buf \in Page
  /\ chip \in Chip
  /\ pc \in {"load", "erase", "write", "vs1053", "spartial", "idle"}
  /\ call \in {"Control_vInit", "Control_vSetVolume", "Control_vSetEnhancer",
               "Control_vSetAutoStart", "Control_vSetSpartialProcessingLevel"}
  /\ loss \in 0..2

(* What is kept: the right volume is stored in RAM, but neither saved by   *)
(* Control_vSetVolume nor read by anything.                                *)
Kept(s) == [left |-> s.left, enh |-> s.enh, auto |-> s.auto, level |-> s.level]

(* Whenever no call is under way, the flash holds exactly the settings     *)
(* that are in RAM: each function replaces its own bytes only, of the      *)
(* latest page (PRE- and POSTBACKUPDATAREGISTERACTION).                    *)
SavedSettings ==
  pc = "idle" => flash.head.magic /\ Kept(Decode(flash)) = Kept(ram)

(* Whenever no call is under way, the registers of the chip are those of   *)
(* the settings, whether they were set by a form or by VS1053_vInit after  *)
(* a restart; an unknown level counts as off.                              *)
ChipPlaysSettings ==
  pc = "idle" => chip = [vol   |-> Attenuation(ram.left),
                         enh   |-> ram.enh,
                         level |-> SpartialBits(ram.level, 0)]

(* Flash and chip follow the settings in RAM.                              *)
SettingsAgree == SavedSettings /\ ChipPlaysSettings

(* Control_vInit brings back the settings: those before the restart if no  *)
(* call was under way, and otherwise those before the call, those after    *)
(* it, or the defaults (the page was erased), never a mixture.  This       *)
(* covers restarts during Control_vInit, which saves the page too.  It     *)
(* needs the write to be whole (loss # 2): the magic byte is in the first  *)
(* word to be written, and says nothing of the other two.                  *)
Loaded == call = "Control_vInit" /\ pc \in {"erase", "write", "vs1053"}
RestartKeepsSettings ==
  Loaded => /\ loss = 0 => Kept(ram) = Kept(before)
            /\ loss = 1 => Kept(ram) \in {Kept(before), Kept(after), Kept(Default)}
=============================================================================
