--------------------------- MODULE SettingsProofs ---------------------------
(***************************************************************************)
(* For every volume, enhancer setting and stack content: the saved         *)
(* settings and the registers of the chip follow the settings in RAM, and  *)
(* a restart brings them back.                                             *)
(*                                                                         *)
(* The argument: while a call is under way, the image to be written stands *)
(* for the settings in RAM (Pending), and until the erase the flash still  *)
(* stands for those before the call (Untouched); what the flash stands for *)
(* after a loss of power (Recoverable) is therefore one of the two, or the *)
(* defaults.                                                               *)
(***************************************************************************)
EXTENDS Settings, TLAPS

Pending   == pc \in {"erase", "write"} =>
               buf.head.magic /\ Kept(Decode(buf)) = Kept(ram)
Written   == pc \in {"idle", "vs1053", "spartial"} =>
               flash.head.magic /\ Kept(Decode(flash)) = Kept(ram)
Untouched == pc = "erase" =>
               Kept(Decode(flash)) = Kept(IF call = "Control_vInit" THEN ram
                                                                  ELSE before)
Emptied   == pc = "write" => flash = ErasedPage
AtRest    == pc = "idle" => before = ram /\ loss = 0
Stage     == /\ pc \in {"load", "vs1053"} => call = "Control_vInit"
             /\ pc = "spartial" => call = "Control_vSetSpartialProcessingLevel"

Possible(s) == /\ loss = 0 => Kept(s) = Kept(before)
               /\ loss = 1 => Kept(s) \in {Kept(before), Kept(after), Kept(Default)}
Recoverable == pc = "load" => Possible(Decode(flash))
Restored    == Loaded => Possible(ram)

(* The chip lags behind in a call that sets the spatial level only.        *)
Sounding ==
  pc \in {"erase", "write", "spartial", "idle"} /\
  (pc # "idle" => call # "Control_vInit") =>
    /\ chip.vol = Attenuation(ram.left)
    /\ chip.enh = ram.enh
    /\ IF pc # "idle" /\ call = "Control_vSetSpartialProcessingLevel"
         THEN ram.level \in Level
         ELSE chip.level = SpartialBits(ram.level, 0)

Inv == /\ TypeOK /\ Pending /\ Written /\ Untouched /\ Emptied
       /\ AtRest /\ Stage /\ Recoverable /\ Restored /\ Sounding
-----------------------------------------------------------------------------
(* The values the steps compute stay in the ranges of TypeOK.              *)
LEMMA DecodeType == ASSUME NEW p \in Page PROVE Decode(p) \in Setting
BY DEF Decode, Page, Setting, Default, Byte, AnyEnhancer

LEMMA ImageType == ASSUME NEW s \in Setting PROVE Image(s) \in Page
BY DEF Image, Page, Setting, Byte

(* Control_vInit writes back what it has read.                             *)
LEMMA ImageKeeps == ASSUME NEW s PROVE /\ Image(s).head.magic
                                       /\ Kept(Decode(Image(s))) = Kept(s)
BY DEF Image, Decode, Kept

LEMMA AttenuationType == ASSUME NEW v \in Byte PROVE Attenuation(v) \in Byte
BY DEF Attenuation, Byte

LEMMA SpartialType ==
  ASSUME NEW l \in Byte, NEW b \in Level
  PROVE  /\ SpartialBits(l, b) \in Level
         /\ l \in Level => SpartialBits(l, b) = l
         /\ SpartialBits(SpartialBits(l, b), b) = SpartialBits(l, b)
BY DEF SpartialBits, Level, Byte

LEMMA ConstantsType == /\ Default \in Setting /\ ErasedPage \in Page
                       /\ ChipReset \in Chip
                       /\ Volumes \subseteq Byte /\ Level \subseteq Byte
                       /\ ~ErasedPage.head.magic
BY SettingsAssumption
   DEF Default, Setting, ErasedPage, Page, ChipReset, Chip, Byte, Level, AnyEnhancer

(* A loss of power, with the flash as it was or as TornWrite leaves it.    *)
LEMMA RestartKeeps ==
  ASSUME Inv, Restart, flash' \in Page, loss' \in 0..2,
         Possible(Decode(flash))'
  PROVE  Inv'
<1> USE DEF Inv, Restart
<1>1. TypeOK' BY ConstantsType DEF TypeOK
<1>2. Recoverable' BY DEF Recoverable
<1>3. (Pending /\ Written /\ Untouched /\ Emptied)'
  BY DEF Pending, Written, Untouched, Emptied
<1>4. (AtRest /\ Stage /\ Restored /\ Sounding)'
  BY DEF AtRest, Stage, Restored, Loaded, Sounding
<1> QED BY <1>1, <1>2, <1>3, <1>4

(* A form handler: what it sets is in RAM and in the image to be written.  *)
LEMMA PrepareKeeps ==
  ASSUME Inv, pc = "idle", NEW fn, NEW page \in Page,
         fn \in {"Control_vSetVolume", "Control_vSetEnhancer",
                 "Control_vSetAutoStart", "Control_vSetSpartialProcessingLevel"},
         Prepare(fn, page), ram' \in Setting, chip' \in Chip,
         page.head.magic, Kept(Decode(page)) = Kept(ram'),
         chip'.vol = Attenuation(ram'.left), chip'.enh = ram'.enh,
         IF fn = "Control_vSetSpartialProcessingLevel"
           THEN ram'.level \in Level
           ELSE chip'.level = SpartialBits(ram'.level, 0)
  PROVE  Inv'
<1> USE DEF Inv, Prepare
<1>1. TypeOK' BY DEF TypeOK
<1>2. (Pending /\ Written /\ Emptied /\ AtRest /\ Stage)'
  BY DEF Pending, Written, Emptied, AtRest, Stage
<1>3. Kept(Decode(flash)) = Kept(before)
  BY DEF Written, AtRest
<1>4. Untouched' BY <1>3 DEF Untouched
<1>5. (Recoverable /\ Restored)'
  BY DEF Recoverable, Restored, Loaded
<1>6. Sounding' BY DEF Sounding
<1> QED BY <1>1, <1>2, <1>4, <1>5, <1>6
-----------------------------------------------------------------------------
LEMMA InitInv == Init => Inv
<1> SUFFICES ASSUME Init PROVE Inv
  OBVIOUS
<1> USE DEF Init
<1>1. TypeOK BY ConstantsType DEF TypeOK
<1>2. Kept(Decode(flash)) = Kept(before) BY DEF ErasedPage, Decode
<1>3. Recoverable BY <1>2 DEF Recoverable, Possible
<1> QED BY <1>1, <1>3 DEF Inv, Pending, Written, Untouched, Emptied, AtRest,
                          Stage, Restored, Loaded, Sounding

LEMMA NextInv == Inv /\ [Next]_vars => Inv'
<1> SUFFICES ASSUME Inv, [Next]_vars PROVE Inv'
  OBVIOUS
<1> USE DEF Inv
<1>t. TypeOK OBVIOUS
<1>0. CASE UNCHANGED vars
  BY <1>0 DEF vars, TypeOK, Pending, Written, Untouched, Emptied, AtRest, Stage,
              Recoverable, Possible, Restored, Loaded, Sounding
<1>1. CASE Control_vInit
  <2> USE <1>1 DEF Control_vInit
  <2>1. flash \in Page BY DEF TypeOK
  <2>2. ram' \in Setting /\ buf' \in Page BY <2>1, DecodeType, ImageType
  <2>3. TypeOK' BY <2>2 DEF TypeOK
  <2>4. call = "Control_vInit" BY DEF Stage
  <2>5. Pending' BY ImageKeeps DEF Pending
  <2>6. Possible(Decode(flash)) BY DEF Recoverable
  <2>7. Restored' BY <2>6 DEF Restored, Possible
  <2>8. Untouched' BY <2>4 DEF Untouched
  <2> QED BY <2>3, <2>4, <2>5, <2>7, <2>8
          DEF Written, Emptied, AtRest, Stage, Recoverable, Sounding
<1>2. CASE VS1053_vInit
  <2> USE <1>2 DEF VS1053_vInit, Settled
  <2>1. ram \in Setting /\ ChipReset.level = 0 /\ 0 \in Level
    BY DEF TypeOK, ChipReset, Level
  <2>2. ram.left \in Byte /\ ram.level \in Byte /\ ram.enh \in AnyEnhancer
    BY <2>1 DEF Setting
  <2>3. Attenuation(ram.left) \in Byte /\ SpartialBits(ram.level, 0) \in Level
    BY <2>1, <2>2, AttenuationType, SpartialType
  <2>4. chip' \in Chip BY <2>1, <2>2, <2>3 DEF Chip
  <2>5. TypeOK' BY <2>4 DEF TypeOK
  <2>6. Sounding' BY <2>1 DEF Sounding
  <2>7. Written' BY DEF Written
  <2> QED BY <2>5, <2>6, <2>7
          DEF Pending, Untouched, Emptied, AtRest, Stage, Recoverable, Restored, Loaded
<1>3. CASE EraseSector
  <2> USE <1>3 DEF EraseSector
  <2>1. TypeOK' BY ConstantsType DEF TypeOK
  <2>2. Pending' BY DEF Pending
  <2>3. Restored' BY DEF Restored, Loaded, Possible
  <2>4. Sounding' BY DEF Sounding
  <2> QED BY <2>1, <2>2, <2>3, <2>4
          DEF Written, Untouched, Emptied, AtRest, Stage, Recoverable
<1>4. CASE WritePage
  <2> USE <1>4 DEF WritePage, Settled
  <2>1. TypeOK' BY DEF TypeOK
  <2>2. Written' BY DEF Written, Pending
  <2>3. Restored' BY DEF Restored, Loaded, Possible
  <2>4. Sounding' BY DEF Sounding
  <2>5. AtRest' BY DEF AtRest
  <2> QED BY <2>1, <2>2, <2>3, <2>4, <2>5
          DEF Pending, Untouched, Emptied, Stage, Recoverable
<1>5. CASE VS1053_vSetSpartialProcessing
  <2> USE <1>5 DEF VS1053_vSetSpartialProcessing, Settled
  <2>1. ram \in Setting /\ chip \in Chip /\ chip.level \in Level /\ 0 \in Level
    BY DEF TypeOK, Chip, Level
  <2>2. ram.level \in Level /\ ram.level \in Byte
    BY <2>1 DEF Sounding, Stage, Setting
  <2>3. SpartialBits(ram.level, chip.level) = ram.level
        /\ SpartialBits(ram.level, 0) = ram.level
    BY <2>1, <2>2, SpartialType
  <2>4. chip' \in Chip BY <2>1, <2>2, <2>3 DEF Chip
  <2>5. TypeOK' BY <2>4 DEF TypeOK
  <2>6. Sounding' BY <2>1, <2>3 DEF Sounding, Stage, Chip
  <2>7. Written' BY DEF Written
  <2> QED BY <2>5, <2>6, <2>7
          DEF Pending, Untouched, Emptied, AtRest, Stage, Recoverable, Restored, Loaded
<1>6. ASSUME pc = "idle", NEW v \in Volumes, Control_vSetVolume(v) PROVE Inv'
  <2> USE <1>6 DEF Control_vSetVolume
  <2> DEFINE page == [flash EXCEPT !.head.left = v]
  <2>1. v \in Byte /\ Attenuation(v) \in Byte BY ConstantsType, AttenuationType
  <2>2. ram \in Setting /\ flash \in Page /\ chip \in Chip BY DEF TypeOK
  <2>3. page \in Page /\ page.head.magic
    BY <2>1, <2>2 DEF Page, Written
  <2>4. ram' \in Setting /\ ram'.left = v /\ ram'.enh = ram.enh /\ ram'.level = ram.level
    BY <2>1, <2>2 DEF Setting
  <2>5. chip' \in Chip /\ chip'.vol = Attenuation(v) /\ chip'.enh = chip.enh
        /\ chip'.level = chip.level
    BY <2>1, <2>2 DEF Chip
  <2>6. Kept(Decode(flash)) = Kept(ram) /\ flash.head.magic BY DEF Written
  <2>7. Kept(Decode(page)) = Kept(ram')
    BY <2>2, <2>3, <2>6 DEF Kept, Decode, Page, Setting
  <2>8. chip.enh = ram.enh /\ chip.level = SpartialBits(ram.level, 0) BY DEF Sounding
  <2>9. Prepare("Control_vSetVolume", page) OBVIOUS
  <2> HIDE DEF page
  <2> QED BY <2>3, <2>4, <2>5, <2>7, <2>8, <2>9, PrepareKeeps
<1>7. ASSUME pc = "idle", NEW e \in Enhancers, Control_vSetEnhancer(e) PROVE Inv'
  <2> USE <1>7 DEF Control_vSetEnhancer
  <2> DEFINE page == [flash EXCEPT !.enh = e]
  <2>1. e \in AnyEnhancer BY DEF AnyEnhancer
  <2>2. ram \in Setting /\ flash \in Page /\ chip \in Chip BY DEF TypeOK
  <2>3. page \in Page /\ page.head.magic
    BY <2>1, <2>2 DEF Page, Written
  <2>4. ram' \in Setting /\ ram'.enh = e /\ ram'.left = ram.left /\ ram'.level = ram.level
    BY <2>1, <2>2 DEF Setting
  <2>5. chip' \in Chip /\ chip'.vol = chip.vol /\ chip'.enh = e
        /\ chip'.level = chip.level
    BY <2>1, <2>2 DEF Chip
  <2>6. Kept(Decode(flash)) = Kept(ram) /\ flash.head.magic BY DEF Written
  <2>7. Kept(Decode(page)) = Kept(ram')
    BY <2>2, <2>3, <2>6 DEF Kept, Decode, Page, Setting
  <2>8. chip.vol = Attenuation(ram.left) /\ chip.level = SpartialBits(ram.level, 0)
    BY DEF Sounding
  <2>9. Prepare("Control_vSetEnhancer", page) OBVIOUS
  <2> HIDE DEF page
  <2> QED BY <2>3, <2>4, <2>5, <2>7, <2>8, <2>9, PrepareKeeps
<1>8. ASSUME pc = "idle", NEW a \in Byte, Control_vSetAutoStart(a) PROVE Inv'
  <2> USE <1>8 DEF Control_vSetAutoStart
  <2> DEFINE page == [flash EXCEPT !.tail.auto = a]
  <2>2. ram \in Setting /\ flash \in Page /\ chip \in Chip BY DEF TypeOK
  <2>3. page \in Page /\ page.head.magic
    BY <2>2 DEF Page, Written
  <2>4. ram' \in Setting /\ ram'.left = ram.left /\ ram'.enh = ram.enh
        /\ ram'.level = ram.level
    BY <2>2 DEF Setting
  <2>6. Kept(Decode(flash)) = Kept(ram) /\ flash.head.magic BY DEF Written
  <2>7. Kept(Decode(page)) = Kept(ram')
    BY <2>2, <2>3, <2>6 DEF Kept, Decode, Page, Setting
  <2>8. /\ chip.vol = Attenuation(ram.left) /\ chip.enh = ram.enh
        /\ chip.level = SpartialBits(ram.level, 0)
    BY DEF Sounding
  <2>9. Prepare("Control_vSetAutoStart", page) /\ chip' = chip OBVIOUS
  <2> HIDE DEF page
  <2> QED BY <2>2, <2>3, <2>4, <2>7, <2>8, <2>9, PrepareKeeps
<1>9. ASSUME pc = "idle", NEW l \in Level, Control_vSetSpartialProcessingLevel(l)
      PROVE Inv'
  <2> USE <1>9 DEF Control_vSetSpartialProcessingLevel
  <2> DEFINE page == [flash EXCEPT !.tail.level = l]
  <2>1. l \in Byte BY ConstantsType
  <2>2. ram \in Setting /\ flash \in Page /\ chip \in Chip BY DEF TypeOK
  <2>3. page \in Page /\ page.head.magic
    BY <2>1, <2>2 DEF Page, Written
  <2>4. ram' \in Setting /\ ram'.left = ram.left /\ ram'.enh = ram.enh /\ ram'.level = l
    BY <2>1, <2>2 DEF Setting
  <2>6. Kept(Decode(flash)) = Kept(ram) /\ flash.head.magic BY DEF Written
  <2>7. Kept(Decode(page)) = Kept(ram')
    BY <2>2, <2>3, <2>6 DEF Kept, Decode, Page, Setting
  <2>8. chip.vol = Attenuation(ram.left) /\ chip.enh = ram.enh BY DEF Sounding
  <2>9. Prepare("Control_vSetSpartialProcessingLevel", page) /\ chip' = chip OBVIOUS
  <2> HIDE DEF page
  <2> QED BY <2>2, <2>3, <2>4, <2>7, <2>8, <2>9, PrepareKeeps
<1>10. CASE PowerLoss
  <2> USE <1>10 DEF PowerLoss
  <2>1. flash' \in Page /\ loss' \in 0..2 BY DEF TypeOK
  <2>2. Restart OBVIOUS
  <2>3. Possible(Decode(flash))'
    <3>1. CASE pc = "load"
      BY <3>1, <2>2 DEF Recoverable, Possible, Restart
    <3>2. CASE pc = "idle"
      BY <3>2, <2>2 DEF Written, AtRest, Possible, Restart
    <3>3. CASE pc = "erase"
      BY <3>3, <2>2 DEF Untouched, Possible, Restart
    <3>4. CASE pc = "write"
      <4>1. Decode(flash) = Default
        BY <3>4, ConstantsType DEF Emptied, Decode
      <4> QED BY <3>4, <4>1, <2>2 DEF Possible, Restart
    <3>5. CASE pc \in {"vs1053", "spartial"}
      BY <3>5, <2>2 DEF Written, Possible, Restart
    <3> QED BY <3>1, <3>2, <3>3, <3>4, <3>5 DEF TypeOK
  <2> QED BY <2>1, <2>2, <2>3, RestartKeeps
<1>11. CASE TornWrite
  <2> USE <1>11 DEF TornWrite
  <2>1. flash' \in Page
    BY ConstantsType DEF TypeOK, Page
  <2>2. loss' = 2 /\ Restart OBVIOUS
  <2>3. Possible(Decode(flash))' BY <2>2 DEF Possible
  <2> QED BY <2>1, <2>2, <2>3, RestartKeeps
<1>12. CASE IndexVolumeCgi BY <1>12, <1>6 DEF IndexVolumeCgi
<1>13. CASE IndexEnhancerCgi BY <1>13, <1>7 DEF IndexEnhancerCgi
<1>14. CASE IndexSpartialCgi BY <1>14, <1>9 DEF IndexSpartialCgi
<1>15. ASSUME NEW ticked \in BOOLEAN, IndexPlaybackCgi(ticked) PROVE Inv'
  <2>1. PICK a \in IF ticked THEN {1} ELSE StackBytes : Control_vSetAutoStart(a)
    BY <1>15 DEF IndexPlaybackCgi
  <2>2. a \in Byte BY SettingsAssumption DEF Byte
  <2> QED BY <1>15, <2>1, <2>2, <1>8 DEF IndexPlaybackCgi
<1> QED BY <1>0, <1>1, <1>2, <1>3, <1>4, <1>5, <1>10, <1>11, <1>12, <1>13, <1>14,
           <1>15 DEF Next

(* Every reachable state satisfies the inductive invariant.                *)
THEOREM Invariance == Spec => []Inv
BY InitInv, NextInv, PTL DEF Spec

(* The settings stay within their bytes, in RAM, in the flash and in the   *)
(* registers (control.c, vs1053.c).                                        *)
THEOREM TypeCorrect == Spec => []TypeOK
<1>1. Inv => TypeOK BY DEF Inv
<1> QED BY <1>1, Invariance, PTL

(* Whenever no call is under way, a restart would read from the flash      *)
(* exactly what is in RAM (Control_vSet..., control.c).                    *)
THEOREM SettingsAreSaved == Spec => []SavedSettings
<1>1. Inv => SavedSettings BY DEF Inv, Written, SavedSettings
<1> QED BY <1>1, Invariance, PTL

(* Whenever no call is under way, the registers of the chip are those of   *)
(* the settings (Control_vSet... and VS1053_vInit).                        *)
THEOREM ChipFollows == Spec => []ChipPlaysSettings
<1>1. Inv => ChipPlaysSettings
  <2> SUFFICES ASSUME Inv, pc = "idle"
               PROVE chip = [vol |-> Attenuation(ram.left), enh |-> ram.enh,
                             level |-> SpartialBits(ram.level, 0)]
    BY DEF ChipPlaysSettings
  <2>1. chip \in Chip BY DEF Inv, TypeOK
  <2>2. /\ chip.vol = Attenuation(ram.left) /\ chip.enh = ram.enh
        /\ chip.level = SpartialBits(ram.level, 0)
    BY DEF Inv, Sounding
  <2> QED BY <2>1, <2>2 DEF Chip
<1> QED BY <1>1, Invariance, PTL

(* A restart at any point brings back the settings before or after the     *)
(* interrupted call or the defaults, never a mixture, as long as the write *)
(* itself is not cut (Control_vInit).                                      *)
THEOREM RestartRestores == Spec => []RestartKeepsSettings
<1>1. Inv => RestartKeepsSettings
  BY DEF Inv, Restored, Possible, RestartKeepsSettings
<1> QED BY <1>1, Invariance, PTL
(* Flash and chip both follow the settings in RAM, whenever no call is     *)
(* under way (control.c, vs1053.c).                                        *)
THEOREM FlashAndChipFollow == Spec => []SettingsAgree
<1>1. SavedSettings /\ ChipPlaysSettings => SettingsAgree BY DEF SettingsAgree
<1> QED BY <1>1, SettingsAreSaved, ChipFollows, PTL
=============================================================================
