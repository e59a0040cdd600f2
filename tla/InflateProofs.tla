--------------------------- MODULE InflateProofs ---------------------------
(***************************************************************************)
(* Every action of Inflate keeps the inductive invariant IInv of           *)
(* InflateLemmas, and what follows from it for every value of the          *)
(* constants: the properties the inflate run checks on a small instance.   *)
(* One lemma per action; its first step lists the parts of the invariant   *)
(* whose variables the action leaves alone.                                *)
(***************************************************************************)
EXTENDS InflateLemmas

USE DEF headVars, sumVars, codeVars, winVars, tabVars, ioVars, callVars
USE DEF Types, RecordTypes, NumberTypes, Calling, Buffered, IInv

\* Between calls nothing is under way.
LEMMA IdleMade ==
    ASSUME IInv, pc = "idle"
    PROVE  out = 0 /\ left = 0 /\ have = 0 /\ Made = 0 /\ Base = hist /\ fast = "no"
  BY DEF InCall, Made, Base, CountTypes

\* The three bits of a block's header, taken from bits that were put in or not
LEMMA HeaderBits ==
    ASSUME NEW b \in Nat, NEW c \in Nat, NEW p \in Nat, b <= 16, b <= 7 \/ b <= p,
           c <= 7 \/ c = b - 3
    PROVE  c <= 13 /\ (c <= 7 \/ c + 3 <= p)
  OBVIOUS

-----------------------------------------------------------------------------
(* The calls between inflate() calls.                                      *)

\* inflateResetKeep: the window stays, and is the history of the next stream.
LEMMA InflateResetKeepKeeps ==
    ASSUME IInv, InflateResetKeep
    PROVE  IInv'
  <1> USE DEF InflateResetKeep, ResetKeep, Forget
  <1>1. Made' = 0 /\ Base' = whave /\ whave \in Nat
    BY IdleMade DEF Made, Base, Shape
  <1>2. wbits \in 0..MaxWBits /\ WindowOf[wbits] \in Nat \ {0}
    BY WindowSizes, InflateAssumption DEF Reusable, Shape
  <1>3. (OutTypes /\ NoBitFaults /\ CopiesRight)'
    BY DEF OutTypes, NoBitFaults, CopiesRight
  <1>4. ControlTypes'
    <2>1. mode' \in Modes
      BY DEF Modes, HeadModes
    <2>2. QED
      BY <2>1 DEF ControlTypes
  <1>5. FlagsType'
    BY DEF FlagsType, NoFlags
  <1>6. CheckType'
    BY DEF CheckType, CheckValues, NoCheck
  <1>7. HeadType'
    BY FreshHead DEF HeadType
  <1>8. SymType'
    BY DEF SymType, SymKinds, NoSym
  <1>9. InTypes'
    BY DEF InTypes, CodeTypes
  <1>10. CodeTypes'
    BY DEF CodeTypes
  <1>11. CountTypes'
    BY <1>1 DEF CountTypes
  <1>12. Calling'
    BY DEF InCall, Begun, NoSym, Counting
  <1>13. HeldInCode'
    BY DEF HeldInCode, NoSym
  <1>14. HeldInHeader'
    BY InflateAssumption DEF HeldInHeader, InCall
  <1>15. HeldInBlock'
    BY DEF HeldInBlock
  <1>16. Margins'
    BY DEF Margins, InCall
  <1>17. Counted'
    BY <1>1 DEF Counted
  <1>18. Shape'
    <2> DEFINE val(i) == IF i >= whave THEN -1 ELSE IF whave < wsize THEN i
                         ELSE IF i >= wnext THEN i - wnext ELSE wsize - wnext + i
    <2>1. /\ window \in [0..(WindowOf[MaxWBits] - 1) -> Int] /\ WindowOf[MaxWBits] \in Nat
          /\ wnext \in Nat /\ wsize \in Nat
      BY <1>2, WindowSizes DEF Shape
    <2>2. window' = [i \in DOMAIN window |-> val(i)]
      OBVIOUS
    <2>3. \A i \in DOMAIN window : val(i) \in Int
      BY <1>1, <2>1
    <2> HIDE DEF val
    <2>4. window' \in [0..(WindowOf[MaxWBits] - 1) -> Int]
      BY <2>1, <2>2, <2>3
    <2>5. QED
      BY <1>2, <2>4 DEF Shape, Reusable
  <1>19. Content'
    <2>1. whave' = Min2(Base', WSizeNow')
      BY <1>1, <1>2 DEF Min2, WSizeNow, Shape
    <2>2. Holds(window', wsize', wnext', whave', Base')
      <3>1. SUFFICES ASSUME NEW i \in 0..(whave - 1)
                     PROVE  window'[i] = IF i < wnext THEN (whave - wnext) + i
                                         ELSE (whave - wsize) + (i - wnext)
        BY <1>1 DEF Holds
      <3>2. /\ wsize \in Nat \ {0} /\ wnext \in Nat /\ whave <= wsize /\ i \in DOMAIN window
            /\ whave < wsize => wnext = whave
        BY <1>1, <1>2, WindowSizes DEF Shape
      <3>3. window'[i] = IF whave < wsize THEN i ELSE IF i >= wnext THEN i - wnext
                         ELSE (wsize - wnext) + i
        BY <1>1, <3>2
      <3> HIDE DEF InflateResetKeep
      <3>4. QED
        BY <1>1, <3>2, <3>3
    <2>3. QED
      BY <2>1, <2>2 DEF Content
  <1>20. Sums'
    BY <1>1 DEF Sums, NoCheck
  <1>21. Judged'
    BY DEF Judged, Judge
  <1>22. Saved'
    BY FreshHead DEF Saved, HeaderSaved
  <1>23. QED
    BY <1>3, <1>4, <1>5, <1>6, <1>7, <1>8, <1>9, <1>10, <1>11, <1>12, <1>13, <1>14, <1>15, <1>16,
      <1>17, <1>18, <1>19, <1>20, <1>21, <1>22

\* inflateReset.
LEMMA InflateResetKeeps ==
    ASSUME IInv, InflateReset
    PROVE  IInv'
  <1> USE DEF InflateReset, ResetKeep, Forget, ForgetWindow
  <1>1. Made' = 0 /\ Base' = 0 /\ wbits' \in 0..MaxWBits /\ WindowOf[wbits'] \in Nat
    BY IdleMade, WindowSizes, InflateAssumption DEF Made, Base, Reusable, Shape
  <1>2. (OutTypes /\ NoBitFaults /\ CopiesRight)'
    BY DEF OutTypes, NoBitFaults, CopiesRight
  <1>3. ControlTypes'
    <2>1. mode' \in Modes
      BY DEF Modes, HeadModes
    <2>2. QED
      BY <2>1 DEF ControlTypes
  <1>4. FlagsType'
    BY DEF FlagsType, NoFlags
  <1>5. CheckType'
    BY DEF CheckType, CheckValues, NoCheck
  <1>6. HeadType'
    BY FreshHead DEF HeadType
  <1>7. SymType'
    BY DEF SymType, SymKinds, NoSym
  <1>8. InTypes'
    BY DEF InTypes, CodeTypes
  <1>9. CountTypes'
    BY DEF CountTypes, CodeTypes, InTypes
  <1>10. CodeTypes'
    BY DEF CodeTypes
  <1>11. Calling'
    BY DEF InCall, Begun, NoSym, Counting
  <1>12. HeldInCode'
    BY DEF HeldInCode, NoSym
  <1>13. HeldInHeader'
    <2>1. PrimeMax \in Nat
      BY InflateAssumption
    <2>2. QED
      BY <2>1 DEF HeldInHeader
  <1>14. HeldInBlock'
    BY DEF HeldInBlock
  <1>15. Margins'
    BY DEF Margins, InCall
  <1>16. Counted'
    BY <1>1 DEF Counted
  <1>17. Shape'
    BY DEF Shape, Reusable
  <1>18. Content'
    BY <1>1 DEF Content, WSizeNow, Min2, Holds
  <1>19. Sums'
    BY <1>1 DEF Sums, NoCheck
  <1>20. Judged'
    BY DEF Judged, Judge
  <1>21. Saved'
    BY FreshHead DEF Saved, HeaderSaved
  <1>22. QED
    BY <1>2, <1>3, <1>4, <1>5, <1>6, <1>7, <1>8, <1>9, <1>10, <1>11, <1>12, <1>13, <1>14, <1>15,
      <1>16, <1>17, <1>18, <1>19, <1>20, <1>21

\* inflateReset2.
LEMMA InflateReset2Keeps ==
    ASSUME IInv, NEW r \in Requests, InflateReset2(r)
    PROVE  IInv'
  <1> USE DEF InflateReset2, ResetKeep, Forget, ForgetWindow
  <1>1. Made' = 0 /\ Base' = 0 /\ wbits' \in 0..MaxWBits /\ WindowOf[wbits'] \in Nat
    BY IdleMade, WindowSizes, InflateAssumption DEF Made, Base
  <1>2. (OutTypes /\ NoBitFaults /\ CopiesRight)'
    BY DEF OutTypes, NoBitFaults, CopiesRight
  <1>3. ControlTypes'
    <2>1. mode' \in Modes
      BY DEF Modes, HeadModes
    <2>2. r.wrap \subseteq {"zlib", "gzip", "check"}
      BY InflateAssumption
    <2>3. QED
      BY <2>1, <2>2 DEF ControlTypes
  <1>4. FlagsType'
    BY DEF FlagsType, NoFlags
  <1>5. CheckType'
    BY DEF CheckType, CheckValues, NoCheck
  <1>6. HeadType'
    BY FreshHead DEF HeadType
  <1>7. SymType'
    BY DEF SymType, SymKinds, NoSym
  <1>8. InTypes'
    BY DEF InTypes, CodeTypes
  <1>9. CountTypes'
    BY DEF CountTypes, CodeTypes, InTypes
  <1>10. CodeTypes'
    BY DEF CodeTypes
  <1>11. Calling'
    BY DEF InCall, Begun, NoSym, Counting
  <1>12. HeldInCode'
    BY DEF HeldInCode, NoSym
  <1>13. HeldInHeader'
    <2>1. PrimeMax \in Nat
      BY InflateAssumption
    <2>2. QED
      BY <2>1 DEF HeldInHeader
  <1>14. HeldInBlock'
    BY DEF HeldInBlock
  <1>15. Margins'
    BY DEF Margins, InCall
  <1>16. Counted'
    BY <1>1 DEF Counted
  <1>17. Shape'
    BY InflateAssumption DEF Shape
  <1>18. Content'
    BY <1>1 DEF Content, WSizeNow, Min2, Holds
  <1>19. Sums'
    BY <1>1, InflateAssumption DEF Sums, NoCheck
  <1>20. Judged'
    BY DEF Judged, Judge
  <1>21. Saved'
    BY FreshHead DEF Saved, HeaderSaved
  <1>22. QED
    BY <1>2, <1>3, <1>4, <1>5, <1>6, <1>7, <1>8, <1>9, <1>10, <1>11, <1>12, <1>13, <1>14, <1>15,
      <1>16, <1>17, <1>18, <1>19, <1>20, <1>21

\* inflatePrime.
LEMMA InflatePrimeKeeps ==
    ASSUME IInv, NEW n \in PrimeSizes, InflatePrime(n)
    PROVE  IInv'
  <1> USE DEF InflatePrime
  <1>1. (ControlTypes /\ FlagsType /\ CheckType /\ HeadType /\ SymType /\ OutTypes /\ CountTypes /\
         CodeTypes /\ InCall /\ Begun /\ Counting /\ NoBitFaults /\ CopiesRight /\ Counted /\ Shape /\
         Content /\ Sums /\ Judged /\ Saved)'
    BY DEF ControlTypes, FlagsType, CheckType, HeadType, SymType, OutTypes, CountTypes, CodeTypes,
      InCall, Begun, Counting, NoBitFaults, CopiesRight, Counted, Shape, Content, Sums, Judged,
      Saved, Made, Base, WSizeNow, HeaderSaved
  <1>2. InTypes'
    <2>1. n \in Nat
      BY InflateAssumption
    <2>2. QED
      BY <2>1 DEF InTypes
  <1>3. HeldInCode'
    BY InflateAssumption, CodeBegun DEF HeldInCode, InTypes
  <1>4. HeldInHeader'
    <2>1. n \in Nat /\ PrimeMax \in 0..16
      BY InflateAssumption
    <2>2. QED
      BY <2>1 DEF HeldInHeader, InTypes
  <1>5. HeldInBlock'
    BY DEF HeldInBlock
  <1>6. Margins'
    BY DEF Margins, InCall
  <1>7. QED
    BY <1>1, <1>2, <1>3, <1>4, <1>5, <1>6

\* inflatePrime(strm, -1, 0).
LEMMA InflatePrimeClearKeeps ==
    ASSUME IInv, InflatePrimeClear
    PROVE  IInv'
  <1> USE DEF InflatePrimeClear
  <1>1. (ControlTypes /\ FlagsType /\ CheckType /\ HeadType /\ SymType /\ OutTypes /\ CountTypes /\
         CodeTypes /\ InCall /\ Begun /\ Counting /\ NoBitFaults /\ CopiesRight /\ Counted /\ Shape /\
         Content /\ Sums /\ Judged /\ Saved)'
    BY DEF ControlTypes, FlagsType, CheckType, HeadType, SymType, OutTypes, CountTypes, CodeTypes,
      InCall, Begun, Counting, NoBitFaults, CopiesRight, Counted, Shape, Content, Sums, Judged,
      Saved, Made, Base, WSizeNow, HeaderSaved
  <1>2. InTypes'
    BY DEF InTypes, CodeTypes
  <1>3. Buffered'
    BY InflateAssumption, CodeBegun DEF HeldInCode, HeldInHeader, HeldInBlock
  <1>4. Margins'
    BY DEF Margins, InCall
  <1>5. QED
    BY <1>1, <1>2, <1>3, <1>4

\* inflateValidate(strm, 0).
LEMMA InflateValidateOffKeeps ==
    ASSUME IInv, InflateValidateOff
    PROVE  IInv'
  <1> USE DEF InflateValidateOff
  <1>1. (FlagsType /\ CheckType /\ HeadType /\ SymType /\ InTypes /\ OutTypes /\ CountTypes /\
         CodeTypes /\ InCall /\ Begun /\ Counting /\ HeldInCode /\ HeldInBlock /\ Margins /\
         NoBitFaults /\ CopiesRight /\ Content /\ Saved)'
    BY DEF FlagsType, CheckType, HeadType, SymType, InTypes, OutTypes, CountTypes, CodeTypes,
      InCall, Begun, Counting, HeldInCode, HeldInBlock, Margins, NoBitFaults, CopiesRight, Content,
      Saved, Made, Base, WSizeNow, HeaderSaved
  <1>2. ControlTypes'
    BY DEF ControlTypes
  <1>3. HeldInHeader'
    BY DEF HeldInHeader, Sums
  <1>4. Counted'
    BY DEF Counted, Made
  <1>5. Shape'
    BY DEF Shape, Sums
  <1>6. Sums'
    BY DEF Sums
  <1>7. Judged'
    BY DEF Judged, Judge
  <1>8. QED
    BY <1>1, <1>2, <1>3, <1>4, <1>5, <1>6, <1>7

\* inflateGetHeader.
LEMMA InflateGetHeaderKeeps ==
    ASSUME IInv, InflateGetHeader
    PROVE  IInv'
  <1> USE DEF InflateGetHeader
  <1>1. (ControlTypes /\ FlagsType /\ CheckType /\ SymType /\ InTypes /\ OutTypes /\ CountTypes /\
         CodeTypes /\ InCall /\ Begun /\ Counting /\ HeldInCode /\ HeldInHeader /\ HeldInBlock /\
         Margins /\ NoBitFaults /\ CopiesRight /\ Counted /\ Shape /\ Content /\ Sums /\ Judged)'
    BY DEF ControlTypes, FlagsType, CheckType, SymType, InTypes, OutTypes, CountTypes, CodeTypes,
      InCall, Begun, Counting, HeldInCode, HeldInHeader, HeldInBlock, Margins, NoBitFaults,
      CopiesRight, Counted, Shape, Content, Sums, Judged, Made, Base, WSizeNow
  <1>2. HeadType'
    BY FreshHead DEF HeadType
  <1>3. Saved'
    BY FreshHead DEF Saved, HeaderSaved
  <1>4. QED
    BY <1>1, <1>2, <1>3

\* inflateCopy: wsize bytes of the window are all that is used of it.
LEMMA InflateCopyKeeps ==
    ASSUME IInv, InflateCopy
    PROVE  IInv'
  <1> USE DEF InflateCopy
  <1>1. (ControlTypes /\ FlagsType /\ CheckType /\ HeadType /\ SymType /\ InTypes /\ OutTypes /\
         CountTypes /\ CodeTypes /\ InCall /\ Begun /\ Counting /\ HeldInCode /\ HeldInHeader /\
         HeldInBlock /\ Margins /\ NoBitFaults /\ CopiesRight /\ Counted /\ Sums /\ Judged /\ Saved)'
    BY DEF ControlTypes, FlagsType, CheckType, HeadType, SymType, InTypes, OutTypes, CountTypes,
      CodeTypes, InCall, Begun, Counting, HeldInCode, HeldInHeader, HeldInBlock, Margins,
      NoBitFaults, CopiesRight, Counted, Sums, Judged, Saved, Made, HeaderSaved
  <1>2. Shape'
    BY WindowSizes DEF Shape, NoFlags
  <1>3. Content'
    <2>1. \A i \in 0..(whave - 1) : window'[i] = window[i]
      BY WindowSizes DEF Shape
    <2>2. QED
      BY <2>1 DEF Content, Holds, Base, Made, WSizeNow
  <1>4. QED
    BY <1>1, <1>2, <1>3

\* inflateSetDictionary: the dictionary is a piece of history put in by updatewindow.
LEMMA InflateSetDictionaryKeeps ==
    ASSUME IInv, NEW n \in DictSizes, InflateSetDictionary(n)
    PROVE  IInv'
  <1> USE DEF InflateSetDictionary
  <1>1. n \in Nat /\ wbits \in 0..MaxWBits /\ WindowOf[wbits] \in Nat \ {0}
    <2>1. wbits # MaxWBits + 1
      BY DEF Shape, HeadModes, BlockModes
    <2>2. QED
      BY <2>1, WindowSizes, InflateAssumption DEF Shape
  <1>2. Made = 0 /\ Made' = 0 /\ Base = hist /\ Base' = hist + n /\ hist \in Nat
    BY <1>1, IdleMade DEF Made, Base, CountTypes
  <1>3. UpdateWindow(n, hist + n) /\ wbits' = wbits /\ hist' = hist + n
    OBVIOUS
  <1>4. (FlagsType /\ CheckType /\ HeadType /\ SymType /\ InTypes /\ OutTypes /\ CodeTypes /\ InCall /\
         Begun /\ Counting /\ HeldInCode /\ HeldInHeader /\ HeldInBlock /\ Margins /\ NoBitFaults /\
         CopiesRight /\ Sums /\ Saved)'
    BY DEF FlagsType, CheckType, HeadType, SymType, InTypes, OutTypes, CodeTypes, InCall, Begun,
      Counting, HeldInCode, HeldInHeader, HeldInBlock, Margins, NoBitFaults, CopiesRight, Sums,
      Saved, HeaderSaved
  <1>5. (ControlTypes /\ CountTypes)'
    BY InflateAssumption DEF ControlTypes, CountTypes
  <1>6. Counted'
    BY <1>1, <1>2 DEF Counted
  <1>7. Shape'
    <2>1. /\ wsize' = WindowOf[wbits] /\ wsize' \in Nat \ {0}
          /\ wnext' \in 0..(wsize' - 1) /\ whave' \in 0..wsize' /\ (whave' < wsize' => wnext' = whave')
          /\ window' \in [0..(WindowOf[MaxWBits] - 1) -> Int]
      BY <1>1, <1>2, <1>3, UpdateShape
    <2>2. /\ wbits <= MaxWBits /\ ~(wbits = MaxWBits + 1) /\ (req.wbits # 0 => wbits = req.wbits)
          /\ mode = "HEAD" => wbits = req.wbits /\ wbits # 0
      BY <1>1, InflateAssumption DEF Shape
    <2>3. mode' = mode /\ req' = req /\ wrap' = wrap /\ wbits' = wbits
      OBVIOUS
    <2> HIDE DEF InflateSetDictionary
    <2>4. QED
      BY <1>1, <2>1, <2>2, <2>3 DEF Shape
  <1>8. Content'
    <2>1. whave = Min2(hist, WSizeNow) /\ Holds(window, wsize, wnext, whave, hist)
      BY <1>2 DEF Content, HeadModes
    <2>2. whave' = Min2(hist + n, wsize') /\ Holds(window', wsize', wnext', whave', hist + n)
      BY <1>1, <1>2, <2>1, UpdateHolds
    <2>3. wsize' = WSizeNow'
      BY <1>1, UpdateShape DEF WSizeNow
    <2>4. QED
      BY <1>2, <2>2, <2>3 DEF Content
  <1>9. Judged'
    <2>1. hist' >= hist /\ hist \in Nat /\ hist' \in Nat
      BY <1>1, <1>2, <1>3
    <2>2. mode = "MATCH" => "check" \notin wrap
      OBVIOUS
    <2>3. QED
      BY <2>1, <2>2 DEF Judged, CodeTypes
  <1>10. QED
    BY <1>4, <1>5, <1>6, <1>7, <1>8, <1>9

\* inflateSync: the history starts anew where the marker is found.
LEMMA InflateSyncKeeps ==
    ASSUME IInv, NEW b \in SyncBytes, NEW h \in SyncBytes, InflateSync(b, h)
    PROVE  IInv'
  <1> USE DEF InflateSync, ForgetWindow
  <1> DEFINE first == mode # "SYNC"
             got == syncsearch(IF first THEN syncsearch(0, h) ELSE lens, b)
  <1>1. got \in 0..4
    <2>1. b \in Seq({0, 255, 1}) /\ h \in Seq({0, 255, 1})
      BY InflateAssumption
    <2>2. syncsearch(0, h) \in 0..4
      BY <2>1, SyncRange
    <2>3. (IF first THEN syncsearch(0, h) ELSE lens) \in 0..4
      BY <2>2 DEF Counting
    <2>4. QED
      BY <2>1, <2>3, SyncRange
  <1>2. Made = 0 /\ out' = 0 /\ left' = 0 /\ Made' = 0 /\ fast = "no"
    BY IdleMade DEF Made
  <1>3. faults' = faults
    <2>1. PICK k : Len(h) = k
      OBVIOUS
    <2>2. k = (IF first THEN bits \div 8 ELSE 0) /\ faults' = faults \cup Fault(k > 4, "syncbuf")
      BY <2>1
    <2>3. bits \in Nat /\ bits <= 39
      BY <1>2 DEF InTypes, HeldInCode
    <2>4. ~(k > 4)
      BY <2>2, <2>3
    <2>5. QED
      BY <2>2, <2>4 DEF Fault
  <1>4. \/ /\ got # 4 /\ mode' = "SYNC" /\ bits' = 0 /\ lens' = got /\ sym' = NoSym
           /\ UNCHANGED <<last, headVars, sumVars, winVars, hist, valid>>
        \/ /\ got = 4 /\ wrap' = (IF flags.kind = "none" THEN {} ELSE wrap \ {"check"})
           /\ mode' = "TYPE" /\ check' = NoCheck /\ last' = FALSE /\ havedict' = FALSE
           /\ head' = NoHead /\ bits' = 0  /\ total' = 0 /\ lens' = 0
           /\ put' = 0 /\ hdr' = 0 /\ valid' = "ok" /\ sym' = NoSym
           /\ wsize' = 0 /\ whave' = 0 /\ wnext' = 0 /\ hist' = 0
           /\ window' = [i \in DOMAIN window |-> -1] /\ flags' = flags /\ wbits' = wbits
    OBVIOUS
  <1>5. /\ length' = 0 /\ offset' = 0 /\ extra' = 0 /\ ncode' = 0 /\ nlen' = 0
        /\ UNCHANGED <<callVars, ioVars, fast, ret, pc, req>> /\ wbits <= MaxWBits /\ pc = "idle"
    OBVIOUS
  <1> HIDE DEF got, first, InflateSync
  <1>6. OutTypes'
    BY <1>5 DEF OutTypes
  <1>7. ControlTypes'
    <2>1. mode' \in Modes
      BY <1>4 DEF Modes, BlockModes
    <2>2. QED
      BY <1>4, <1>5, <2>1 DEF ControlTypes
  <1>8. FlagsType'
    BY <1>4 DEF FlagsType
  <1>9. CheckType'
    BY <1>4 DEF CheckType, CheckValues, NoCheck
  <1>10. SymType'
    BY <1>4 DEF SymType, SymKinds, NoSym
  <1>11. InTypes'
    BY <1>4, <1>5 DEF InTypes
  <1>12. CountTypes'
    BY <1>4 DEF CountTypes
  <1>13. CodeTypes'
    BY <1>1, <1>4, <1>5 DEF CodeTypes
  <1>14. HeadType'
    BY <1>4, FreshHead DEF HeadType
  <1>15. InCall'
    BY <1>5 DEF InCall
  <1>16. Begun'
    BY <1>4 DEF Begun, NoSym
  <1>17. Counting'
    BY <1>1, <1>4 DEF Counting
  <1>18. HeldInCode'
    BY <1>2, <1>4, <1>5 DEF HeldInCode, NoSym
  <1>19. HeldInHeader'
    BY <1>4 DEF HeldInHeader
  <1>20. HeldInBlock'
    BY <1>4 DEF HeldInBlock
  <1>21. Margins'
    BY <1>5, IdleMade DEF Margins
  <1>22. NoBitFaults'
    BY <1>3 DEF NoBitFaults
  <1>23. CopiesRight'
    BY <1>3 DEF CopiesRight
  <1>24. Counted'
    BY <1>2, <1>4 DEF Counted, HeadModes
  <1>25. Shape'
    <2>1. wbits # MaxWBits + 1 /\ wbits' = wbits /\ req' = req
      BY <1>4, <1>5, InflateAssumption
    <2>2. CASE mode' = "SYNC" /\ UNCHANGED winVars
      BY <2>1, <2>2 DEF Shape
    <2>3. CASE /\ mode' = "TYPE" /\ wsize' = 0 /\ whave' = 0 /\ wnext' = 0
               /\ window' = [i \in DOMAIN window |-> -1]
      <3>1. window' \in [0..(WindowOf[MaxWBits] - 1) -> Int]
        BY <2>3 DEF Shape
      <3>2. QED
        BY <2>1, <2>3, <3>1 DEF Shape
    <2>4. QED
      BY <1>4, <2>2, <2>3
  <1>26. Content'
    <2>1. CASE got = 4
      <3>1. wbits \in 0..MaxWBits /\ WindowOf[wbits] \in Nat
        BY <1>5, WindowSizes DEF Shape
      <3>2. Base' = 0 /\ whave' = 0 /\ wsize' = 0
        BY <1>2, <1>4, <2>1 DEF Base
      <3>3. WSizeNow' = WindowOf[wbits]
        BY <1>4, <2>1 DEF WSizeNow
      <3>4. QED
        BY <3>1, <3>2, <3>3 DEF Content, Min2, Holds
    <2>2. CASE got # 4
      BY <1>4, <2>2 DEF Content, HeadModes, BlockModes
    <2>3. QED
      BY <2>1, <2>2
  <1>27. Sums'
    BY <1>4 DEF Sums, BlockModes
  <1>28. Judged'
    BY <1>3, <1>4 DEF Judged
  <1>29. Saved'
    BY <1>4 DEF Saved, HeaderSaved, HeadModes, NoHead
  <1>30. QED
    BY <1>6, <1>7, <1>8, <1>9, <1>10, <1>11, <1>12, <1>13, <1>14, <1>15, <1>16, <1>17, <1>18, <1>19,
      <1>20, <1>21, <1>22, <1>23, <1>24, <1>25, <1>26, <1>27, <1>28, <1>29

\* inflate() is called.
LEMMA CallKeeps ==
    ASSUME IInv, NEW c \in Calls, Call(c[1], c[2], c[3])
    PROVE  IInv'
  <1> USE DEF Call
  <1>1. c[1] \in Nat /\ c[2] \in Nat /\ c[3] \in {"none", "finish", "block", "trees"}
    BY InflateAssumption
  <1>2. Made' = 0 /\ Made = 0 /\ Base' = hist /\ Base = hist
    BY <1>1, IdleMade DEF Made, Base
  <1>3. (FlagsType /\ CheckType /\ HeadType /\ SymType /\ CountTypes /\ CodeTypes /\ NoBitFaults /\
         CopiesRight)'
    BY DEF FlagsType, CheckType, HeadType, SymType, CountTypes, CodeTypes, NoBitFaults, CopiesRight
  <1>4. ControlTypes'
    BY InflateAssumption DEF ControlTypes, Modes, BlockModes
  <1>5. InTypes'
    BY InflateAssumption DEF InTypes, CodeTypes
  <1>6. OutTypes'
    BY InflateAssumption DEF OutTypes, CodeTypes
  <1>7. InCall'
    BY InflateAssumption DEF InCall
  <1>8. Begun'
    BY DEF Begun
  <1>9. Counting'
    BY DEF Counting, CodeTypes
  <1>10. Buffered'
    BY DEF HeldInCode, HeldInHeader, HeldInBlock
  <1>11. Margins'
    BY DEF Margins, InCall
  <1>12. Counted'
    BY <1>2 DEF Counted, HeadModes
  <1>13. Shape'
    BY DEF Shape
  <1>14. Content'
    BY <1>2, ContentKept DEF HeadModes, BlockModes
  <1>15. Sums'
    BY <1>2 DEF Sums, BlockModes
  <1>16. Judged'
    BY DEF Judged, Judge
  <1>17. Saved'
    BY DEF Saved, HeaderSaved, HeadModes
  <1>18. QED
    BY <1>3, <1>4, <1>5, <1>6, <1>7, <1>8, <1>9, <1>10, <1>11, <1>12, <1>13, <1>14, <1>15, <1>16,
      <1>17

-----------------------------------------------------------------------------
(* The header.                                                             *)

\* case HEAD, no header.
LEMMA HeadRawKeeps ==
    ASSUME IInv, HeadRaw
    PROVE  IInv'
  <1> USE DEF HeadRaw, Running, SetBad, Leave, Stay
  <1>1. (FlagsType /\ CheckType /\ HeadType /\ SymType /\ InTypes /\ OutTypes /\ CountTypes /\
         CodeTypes /\ Margins /\ NoBitFaults /\ CopiesRight)'
    BY DEF FlagsType, CheckType, HeadType, SymType, InTypes, OutTypes, CountTypes, CodeTypes,
      Margins, NoBitFaults, CopiesRight
  <1>2. ControlTypes'
    BY DEF ControlTypes, Modes, BlockModes
  <1>3. Calling'
    BY DEF InCall, Begun, Counting
  <1>4. Buffered'
    BY DEF HeldInCode, HeldInHeader, HeldInBlock
  <1>5. Counted'
    BY DEF Counted, Made, HeadModes
  <1>6. Shape'
    BY DEF Shape
  <1>7. Content'
    BY ContentKept DEF Base, Made, HeadModes
  <1>8. Sums'
    BY DEF Sums
  <1>9. Judged'
    BY TakeAllIs DEF Judged, Judge
  <1>10. Saved'
    BY DEF Saved, HeaderSaved, HeadModes
  <1>11. QED
    BY <1>1, <1>2, <1>3, <1>4, <1>5, <1>6, <1>7, <1>8, <1>9, <1>10

\* case HEAD, a gzip header.
LEMMA HeadGzipKeeps ==
    ASSUME IInv, HeadGzip
    PROVE  IInv'
  <1> USE DEF HeadGzip, Running, SetBad, Leave, Stay
  <1>1. (FlagsType /\ HeadType /\ SymType /\ OutTypes /\ CodeTypes /\ NoBitFaults /\ CopiesRight)'
    BY DEF FlagsType, HeadType, SymType, OutTypes, CodeTypes, NoBitFaults, CopiesRight
  <1>2. (ControlTypes /\ CheckType /\ InTypes /\ CountTypes)'
    BY TakeAllIs DEF ControlTypes, Modes, HeadModes, CheckType, CheckValues, CountTypes, InTypes
  <1>3. Calling'
    BY TakeAllIs DEF InCall, InTypes, Begun, Counting
  <1>4. Buffered'
    BY TakeAllIs, CodeBegun DEF HeldInCode, HeldInHeader, HeldInBlock
  <1>5. Margins'
    BY TakeAllIs DEF Margins, InCall
  <1>6. Counted'
    BY DEF Counted, Made, HeadModes
  <1>7. Shape'
    BY InflateAssumption DEF Shape
  <1>8. Content'
    <2>1. Base' = Base
      BY DEF Base, Made
    <2>2. CASE wbits # 0
      BY <2>1, <2>2, ContentKept DEF HeadModes
    <2>3. CASE wbits = 0
      <3>1. wsize = 0 /\ whave = 0 /\ Base \in Nat
        BY <2>3 DEF Shape, Counted, Base, Made, OutTypes, CountTypes
      <3>2. WindowOf[0] \in Nat \ {0} /\ WindowOf[MaxWBits] \in Nat \ {0}
        BY WindowSizes, InflateAssumption
      <3>3. Base = 0
        BY <2>3, <3>1, <3>2 DEF Content, HeadModes, WSizeNow, Min2
      <3>4. QED
        BY <2>1, <2>3, <3>1, <3>2, <3>3 DEF Content, Holds, WSizeNow, Min2
    <2>4. QED
      BY <2>2, <2>3
  <1>9. Sums'
    BY DEF Sums, BlockModes
  <1>10. Judged'
    BY TakeAllIs DEF Judged, Judge
  <1>11. Saved'
    BY DEF Saved, HeaderSaved, HeadModes
  <1>12. QED
    BY <1>1, <1>2, <1>3, <1>4, <1>5, <1>6, <1>7, <1>8, <1>9, <1>10, <1>11

\* case HEAD, a zlib header: its window size may be the one used.
LEMMA HeadZlibKeeps ==
    ASSUME IInv, NEW len \in 1..(MaxWBits + 1), NEW dict \in BOOLEAN, HeadZlib(len, dict)
    PROVE  IInv'
  <1> DEFINE w == IF wbits = 0 THEN len ELSE wbits
  <1>1. /\ mode = "HEAD" /\ pc = "run" /\ fast = "no" /\ "zlib" \in wrap
        /\ head' = (IF head.on THEN [head EXCEPT !.done = -1] ELSE head) /\ wbits' = w
        /\ UNCHANGED <<last, wrap, hdr, havedict, total, put, codeVars, wsize, whave, wnext, window,
                       tabVars, callVars, left, fast, ret, pc, sym, req, hist, faults>>
    BY DEF HeadZlib, Running
  <1>2. \/ /\ len > MaxWBits \/ len > w
           /\ mode' = "BAD" /\ valid' = (IF len > WindowAsked THEN "bad" ELSE valid)
           /\ UNCHANGED <<flags, check>>
        \/ /\ len <= MaxWBits /\ len <= w
           /\ flags' = [kind |-> "zlib", f |-> {}] /\ check' = NoCheck
           /\ mode' \in {"DICTID", "TYPE"} /\ valid' = valid
    BY DEF HeadZlib, SetBad
  <1>3. /\ have' \in Nat /\ have' <= have /\ bits' \in Nat
        /\ \/ mode' = "BAD" /\ bits' <= bits + 19
           \/ mode' \in {"DICTID", "TYPE"} /\ bits' = 0
    BY HeadZlibDoes
  <1>4. wbits = req.wbits /\ len \in 1..(MaxWBits + 1) /\ wbits \in 0..MaxWBits /\ MaxWBits \in Nat
    BY <1>1, InflateAssumption DEF Shape, ControlTypes
  <1>5. sym.k = "none"
    BY <1>1, CodeBegun
  <1>6. (SymType /\ OutTypes /\ CountTypes /\ CodeTypes /\ NoBitFaults /\ CopiesRight)'
    BY <1>1, <1>2, <1>3, <1>4, <1>5 DEF SymType, OutTypes, CountTypes, CodeTypes, NoBitFaults,
      CopiesRight
  <1>7. ControlTypes'
    BY <1>1, <1>2 DEF ControlTypes, Modes, HeadModes, BlockModes
  <1>8. FlagsType'
    BY <1>2 DEF FlagsType
  <1>9. CheckType'
    BY <1>2 DEF CheckType, CheckValues, NoCheck
  <1>10. InTypes'
    BY <1>1, <1>3 DEF InTypes
  <1>11. HeadType'
    BY <1>1, HeadDoneIs DEF HeadType
  <1>12. Calling'
    BY <1>1, <1>3 DEF InCall, InTypes, Begun, Counting
  <1>13. HeldInCode'
    <2>1. bits' <= 39 /\ mode' \in {"BAD", "DICTID", "TYPE"}
      BY <1>1, <1>3 DEF HeldInHeader, InTypes
    <2>2. QED
      BY <1>1, <1>5, <2>1 DEF HeldInCode
  <1>14. HeldInHeader'
    BY <1>3 DEF HeldInHeader
  <1>15. HeldInBlock'
    BY <1>3 DEF HeldInBlock
  <1>16. Margins'
    BY <1>1 DEF Margins
  <1>17. Counted'
    BY <1>1 DEF Counted, Made, HeadModes
  <1>18. Shape'
    <2>1. wbits # 0 => wbits' = wbits
      BY <1>1
    <2>2. wbits = 0 => wsize = 0 /\ wbits' = len /\ req.wbits = 0
      BY <1>1, <1>4 DEF Shape
    <2>3. len > MaxWBits => mode' = "BAD"
      BY <1>2, <1>4
    <2>4. mode' # "HEAD"
      BY <1>2
    <2> HIDE DEF w
    <2>5. CASE wbits # 0
      BY <1>1, <2>1, <2>5 DEF Shape
    <2>6. CASE wbits = 0
      BY <1>1, <1>4, <2>2, <2>3, <2>4, <2>6 DEF Shape
    <2>7. QED
      BY <2>5, <2>6
  <1>19. Content'
    <2>1. Base' = Base
      BY <1>1 DEF Base, Made
    <2>2. CASE wbits # 0
      BY <1>1, <2>1, <2>2, ContentKept DEF HeadModes
    <2>3. CASE wbits = 0 /\ len <= MaxWBits
      <3>1. wsize = 0 /\ whave = 0 /\ Base \in Nat
        BY <1>1, <2>3 DEF Shape, Counted, Base, Made, OutTypes, CountTypes
      <3>2. WindowOf[0] \in Nat \ {0} /\ WindowOf[len] \in Nat \ {0}
        BY <1>4, <2>3, WindowSizes
      <3>3. Base = 0
        BY <1>1, <2>3, <3>1, <3>2 DEF Content, HeadModes, WSizeNow, Min2
      <3>4. whave' = 0 /\ wsize' = 0 /\ wbits' = len /\ Base' = 0
        BY <1>1, <2>1, <2>3, <3>1, <3>3
      <3>5. QED
        BY <3>2, <3>4 DEF Content, Holds, WSizeNow, Min2
    <2>4. CASE len > MaxWBits
      <3>1. mode' = "BAD"
        BY <1>2, <1>4, <2>4
      <3>2. QED
        BY <3>1 DEF Content, HeadModes, BlockModes
    <2>5. QED
      BY <1>4, <2>2, <2>3, <2>4
  <1>20. Sums'
    <2>1. put = 0 /\ Made' = 0 /\ put' = 0
      BY <1>1 DEF Counted, HeadModes, Made
    <2>2. CASE mode' = "BAD"
      BY <1>1, <2>2 DEF Sums, BlockModes
    <2>3. CASE mode' \in {"DICTID", "TYPE"}
      BY <1>1, <1>2, <2>1, <2>3 DEF Sums, NoCheck
    <2>4. QED
      BY <1>2, <2>2, <2>3
  <1>21. Judged'
    <2>1. valid = "bad" => "check" \notin wrap
      BY <1>1 DEF Judged
    <2>2. CASE mode' = "BAD"
      <3>1. len > WindowAsked
        BY <1>2, <1>4, <2>2 DEF WindowAsked
      <3>2. valid' = "bad"
        BY <1>2, <2>2, <3>1
      <3>3. QED
        BY <1>1, <2>2, <3>2 DEF Judged
    <2>3. CASE mode' \in {"DICTID", "TYPE"}
      BY <1>1, <1>2, <2>3 DEF Judged
    <2>4. QED
      BY <1>2, <2>2, <2>3
  <1>22. Saved'
    BY <1>1, <1>3 DEF Saved, HeaderSaved, HeadModes
  <1>23. QED
    BY <1>6, <1>7, <1>8, <1>9, <1>10, <1>11, <1>12, <1>13, <1>14, <1>15, <1>16, <1>17, <1>18, <1>19,
      <1>20, <1>21, <1>22

\* case HEAD, neither.
LEMMA HeadBadKeeps ==
    ASSUME IInv, HeadBad
    PROVE  IInv'
  <1> USE DEF HeadBad, Running, SetBad, Leave, Stay
  <1>1. (FlagsType /\ CheckType /\ SymType /\ OutTypes /\ CountTypes /\ CodeTypes /\ NoBitFaults /\
         CopiesRight)'
    BY DEF FlagsType, CheckType, SymType, OutTypes, CountTypes, CodeTypes, NoBitFaults, CopiesRight
  <1>2. ControlTypes'
    BY DEF ControlTypes, Modes
  <1>3. HeadType'
    BY HeadDoneIs DEF HeadType
  <1>4. InTypes'
    BY NeedIs DEF InTypes
  <1>5. Calling'
    BY NeedIs DEF InCall, InTypes, Begun, Counting
  <1>6. HeldInHeader'
    BY DEF HeldInHeader
  <1>7. HeldInBlock'
    BY DEF HeldInBlock
  <1>8. HeldInCode'
    <2>1. bits' <= 23 /\ bits' \in Nat
      BY NeedIs DEF HeldInHeader, InTypes
    <2>2. QED
      BY <2>1, CodeBegun DEF HeldInCode
  <1>9. Margins'
    BY DEF Margins
  <1>10. Counted'
    BY DEF Counted, Made, HeadModes
  <1>11. Shape'
    BY DEF Shape
  <1>12. Content'
    BY ContentKept DEF Base, Made, HeadModes
  <1>13. Sums'
    BY DEF Sums, BlockModes
  <1>14. Judged'
    BY DEF Judged
  <1>15. Saved'
    BY DEF Saved, HeaderSaved, HeadModes
  <1>16. QED
    BY <1>1, <1>2, <1>3, <1>4, <1>5, <1>6, <1>7, <1>8, <1>9, <1>10, <1>11, <1>12, <1>13, <1>14,
      <1>15

\* case FLAGS.
LEMMA FlagsKeeps ==
    ASSUME IInv, NEW f \in GzFlags, Flags(f)
    PROVE  IInv'
  <1> USE DEF Flags, Running
  <1>1. (HeadType /\ SymType /\ OutTypes /\ CodeTypes /\ NoBitFaults /\ CopiesRight)'
    BY DEF HeadType, SymType, OutTypes, CodeTypes, NoBitFaults, CopiesRight
  <1>2. (ControlTypes /\ FlagsType /\ CheckType /\ InTypes /\ CountTypes)'
    BY InflateAssumption, TakeAllIs, HeadSumIs DEF ControlTypes, Modes, HeadModes, BlockModes,
      FlagsType, NoFlags, CheckType, CheckValues, NoCheck, CountTypes, InTypes, CodeTypes
  <1>3. Calling'
    BY TakeAllIs DEF InCall, InTypes, Begun, Counting
  <1>4. Buffered'
    BY TakeAllIs, CodeBegun DEF HeldInCode, HeldInHeader, HeldInBlock
  <1>5. Margins'
    BY TakeAllIs, HeadSumIs DEF Margins, InCall
  <1>6. Counted'
    BY DEF Counted, Made, HeadModes
  <1>7. Shape'
    BY DEF Shape
  <1>8. Content'
    BY ContentKept DEF Base, Made, HeadModes
  <1>9. Sums'
    BY HeadSumIs DEF Sums, BlockModes, CountTypes
  <1>10. Judged'
    BY TakeAllIs, HeadSumIs DEF Judged, Judge
  <1>11. Saved'
    <2>1. head.done # 1 /\ head.extra = 0
      BY DEF Saved, HeadModes
    <2>2. QED
      BY <2>1 DEF Saved, HeaderSaved, HeadModes
  <1>12. QED
    BY <1>1, <1>2, <1>3, <1>4, <1>5, <1>6, <1>7, <1>8, <1>9, <1>10, <1>11

\* case FLAGS, an unknown method or flag.
LEMMA FlagsBadKeeps ==
    ASSUME IInv, FlagsBad
    PROVE  IInv'
  <1> USE DEF FlagsBad, Running, SetBad, Leave, Stay
  <1>1. (CheckType /\ HeadType /\ SymType /\ OutTypes /\ CountTypes /\ CodeTypes /\ NoBitFaults /\
         CopiesRight)'
    BY DEF CheckType, HeadType, SymType, OutTypes, CountTypes, CodeTypes, NoBitFaults, CopiesRight
  <1>2. (ControlTypes /\ FlagsType /\ InTypes)'
    BY NeedIs DEF ControlTypes, Modes, FlagsType, InTypes
  <1>3. Calling'
    BY NeedIs DEF InCall, InTypes, Begun, Counting
  <1>4. HeldInCode'
    BY NeedIs, CodeBegun DEF HeldInCode, InTypes
  <1>5. HeldInHeader'
    BY DEF HeldInHeader
  <1>6. HeldInBlock'
    BY DEF HeldInBlock
  <1>7. Margins'
    BY TakeAllIs, NeedIs DEF Margins, InCall
  <1>8. Counted'
    BY DEF Counted, Made, HeadModes
  <1>9. Shape'
    BY DEF Shape
  <1>10. Content'
    BY ContentKept DEF Base, Made, HeadModes
  <1>11. Sums'
    BY DEF Sums, BlockModes
  <1>12. Judged'
    BY TakeAllIs, NeedIs DEF Judged, Judge
  <1>13. Saved'
    BY DEF Saved, HeaderSaved, HeadModes
  <1>14. QED
    BY <1>1, <1>2, <1>3, <1>4, <1>5, <1>6, <1>7, <1>8, <1>9, <1>10, <1>11, <1>12, <1>13

\* cases TIME and OS.
LEMMA TimeOrOSKeeps ==
    ASSUME IInv, TimeOrOS
    PROVE  IInv'
  <1> USE DEF TimeOrOS, Running, EnoughNow
  <1>1. (FlagsType /\ HeadType /\ SymType /\ OutTypes /\ CodeTypes /\ NoBitFaults /\ CopiesRight)'
    BY DEF FlagsType, HeadType, SymType, OutTypes, CodeTypes, NoBitFaults, CopiesRight
  <1>2. ControlTypes'
    BY DEF ControlTypes, Modes, HeadModes
  <1>3. CheckType'
    BY BitsOfIs, HeadSumIs DEF CheckType, CountTypes
  <1>4. InTypes'
    BY TakeAllIs, BitsOfIs DEF InTypes
  <1>5. CountTypes'
    BY BitsOfIs DEF CountTypes
  <1>6. Calling'
    BY TakeAllIs, BitsOfIs DEF InCall, InTypes, Begun, Counting
  <1>7. Buffered'
    BY TakeAllIs, BitsOfIs, CodeBegun DEF HeldInCode, HeldInHeader, HeldInBlock
  <1>8. Margins'
    BY DEF Margins
  <1>9. Counted'
    BY DEF Counted, Made, HeadModes
  <1>10. Shape'
    BY DEF Shape
  <1>11. Content'
    BY ContentKept DEF Base, Made, HeadModes
  <1>12. Sums'
    BY BitsOfIs, HeadSumIs DEF Sums, BlockModes, CountTypes
  <1>13. Judged'
    BY DEF Judged
  <1>14. Saved'
    BY DEF Saved, HeaderSaved, HeadModes
  <1>15. QED
    BY <1>1, <1>2, <1>3, <1>4, <1>5, <1>6, <1>7, <1>8, <1>9, <1>10, <1>11, <1>12, <1>13, <1>14

\* case EXLEN.
LEMMA ExlenKeeps ==
    ASSUME IInv, NEW n \in ExtraLens \cup {0}, Exlen(n)
    PROVE  IInv'
  <1>1. /\ mode = "EXLEN" /\ pc = "run" /\ fast = "no" /\ mode' = "EXTRA" /\ n \in Nat
        /\ UNCHANGED <<last, wrap, flags, havedict, total, put, offset, extra, winVars, tabVars,
                       callVars, left, fast, ret, pc, sym, req, hist, valid, faults>>
    BY InflateAssumption DEF Exlen, Running
  <1>2. \/ /\ "extra" \in flags.f /\ length' = n
           /\ head' = (IF head.on THEN [head EXCEPT !.exlen = n] ELSE head)
           /\ check' = HeadSum(flags.f, 2) /\ hdr' = hdr + 2
        \/ "extra" \notin flags.f /\ UNCHANGED <<length, head, check, hdr>>
    BY DEF Exlen
  <1>3. have' \in Nat /\ have' <= have /\ bits' = 0
    BY <1>1, ExlenDoes DEF HeldInHeader
  <1>4. sym.k = "none"
    BY <1>1, CodeBegun
  <1>5. (FlagsType /\ SymType /\ OutTypes /\ NoBitFaults /\ CopiesRight)'
    BY <1>1, <1>2, <1>3, <1>4 DEF FlagsType, SymType, OutTypes, NoBitFaults, CopiesRight
  <1>6. ControlTypes'
    BY <1>1 DEF ControlTypes, Modes, HeadModes
  <1>7. InTypes'
    BY <1>1, <1>3 DEF InTypes
  <1>8. CountTypes'
    BY <1>1, <1>2 DEF CountTypes
  <1>9. CodeTypes'
    BY <1>1, <1>2 DEF CodeTypes
  <1>10. CheckType'
    BY <1>2, HeadSumIs DEF CheckType, CountTypes
  <1>11. HeadType'
    BY <1>1, <1>2, HeadExlenIs DEF HeadType
  <1>12. Calling'
    BY <1>1, <1>3 DEF InCall, InTypes, Begun, Counting
  <1>13. HeldInHeader'
    BY <1>3, InflateAssumption DEF HeldInHeader
  <1>14. HeldInBlock'
    BY <1>3 DEF HeldInBlock
  <1>15. HeldInCode'
    BY <1>1, <1>3, <1>4 DEF HeldInCode
  <1>16. Margins'
    BY <1>1 DEF Margins
  <1>17. Counted'
    BY <1>1 DEF Counted, Made, HeadModes
  <1>18. Shape'
    BY <1>1 DEF Shape
  <1>19. Content'
    BY <1>1, ContentKept DEF Base, Made, HeadModes
  <1>20. Sums'
    BY <1>1, <1>2, HeadSumIs DEF Sums, CountTypes, BlockModes
  <1>21. Judged'
    BY <1>1 DEF Judged
  <1>22. Saved'
    <2>1. /\ head'.on = head.on /\ head'.done = head.done /\ head'.extra = head.extra
          /\ head'.name = head.name /\ head'.comment = head.comment
          /\ head.on /\ "extra" \in flags.f => head'.exlen = n /\ length' = n
      <3>1. CASE "extra" \in flags.f /\ head.on
        <4>1. n \in Nat /\ head' = [head EXCEPT !.exlen = n] /\ length' = n
          BY <1>1, <1>2, <3>1
        <4>2. QED
          BY <4>1, HeadExlenIs
      <3>2. CASE ~("extra" \in flags.f /\ head.on)
        BY <1>2, <3>2
      <3>3. QED
        BY <3>1, <3>2
    <2>2. head.done # 1 /\ head.extra = 0
      BY <1>1 DEF Saved, HeadModes
    <2>3. Min2(n - n, ExtraMax) = 0
      BY <1>1, InflateAssumption DEF Min2
    <2>4. QED
      BY <1>1, <1>4, <2>1, <2>2, <2>3 DEF Saved, HeaderSaved
  <1>23. QED
    BY <1>5, <1>6, <1>7, <1>8, <1>9, <1>10, <1>11, <1>12, <1>13, <1>14, <1>15, <1>16, <1>17, <1>18,
      <1>19, <1>20, <1>21, <1>22

\* case EXTRA: the next piece of the field is saved after the one before.
LEMMA ExtraKeeps ==
    ASSUME IInv, Extra
    PROVE  IInv'
  <1> DEFINE m == have - have'
             at == head.exlen - length
             save == IF head.extra = at THEN at + Min2(m, ExtraMax - at) ELSE -1
  <1>1. /\ m \in Nat /\ m <= have /\ m <= length /\ have' = have - m /\ hdr' = hdr + m
        /\ check' = (IF m > 0 THEN HeadSum(flags.f, m) ELSE check)
        /\ \/ /\ "extra" \in flags.f /\ m = have /\ m < length /\ length' = length - m
              /\ mode' = "EXTRA" /\ pc' = "leave"
           \/ /\ "extra" \in flags.f => m = length
              /\ "extra" \notin flags.f => m = 0
              /\ length' = 0 /\ mode' = "NAME" /\ pc' = "run"
    BY ExtraDoes
  <1>2. \/ head' = head /\ (head.on => m = 0 \/ at >= ExtraMax)
        \/ head.on /\ at < ExtraMax /\ head' = [head EXCEPT !.extra = save]
    BY ExtraDoes
  <1>3. /\ mode = "EXTRA" /\ pc = "run" /\ fast = "no"
        /\ UNCHANGED <<last, wrap, flags, havedict, total, put, offset, extra, winVars, bits,
                       tabVars, callVars, left, fast, ret, sym, req, hist, valid, faults>>
    BY DEF Extra, Running
  <1>4. head.exlen \in Nat /\ head.extra \in Int /\ length \in Nat /\ at \in Int /\ ExtraMax \in Nat
    BY InflateAssumption DEF HeadType, HeadValues, CodeTypes
  <1>5. save \in Int /\ Min2(m, ExtraMax - at) \in Int
    BY <1>1, <1>4 DEF Min2
  <1> HIDE DEF m
  <1>6. (FlagsType /\ SymType /\ OutTypes /\ NoBitFaults /\ CopiesRight)'
    BY <1>1, <1>3 DEF FlagsType, SymType, OutTypes, NoBitFaults, CopiesRight
  <1>7. ControlTypes'
    BY <1>1, <1>3 DEF ControlTypes, Modes, HeadModes
  <1>8. InTypes'
    BY <1>1, <1>3 DEF InTypes
  <1>9. CountTypes'
    BY <1>1, <1>3 DEF CountTypes
  <1>10. CodeTypes'
    BY <1>1, <1>3 DEF CodeTypes
  <1>11. CheckType'
    BY <1>1, HeadSumIs DEF CheckType, CountTypes
  <1>12. HeadType'
    BY <1>2, <1>5, HeadExtraIs DEF HeadType
  <1>13. Calling'
    BY <1>1, <1>3 DEF InCall, InTypes, Begun, Counting
  <1>14. Buffered'
    BY <1>3, InflateAssumption DEF HeldInCode, HeldInHeader, HeldInBlock
  <1>15. Margins'
    BY <1>1, <1>3 DEF Margins, InCall
  <1>16. Counted'
    BY <1>3 DEF Counted, Made, HeadModes
  <1>17. Shape'
    BY <1>1, <1>3 DEF Shape
  <1>18. Content'
    BY <1>3, ContentKept DEF Base, Made, HeadModes
  <1>19. Sums'
    <2>1. CASE m > 0
      BY <1>1, <1>3, HeadSumIs DEF Sums, CountTypes, BlockModes
    <2>2. CASE m = 0
      BY <1>1, <1>3, <2>2 DEF Sums, CountTypes, BlockModes
    <2>3. QED
      BY <1>1, <2>1, <2>2
  <1>20. Judged'
    BY <1>1, <1>3 DEF Judged, Judge
  <1>21. Saved'
    <2>1. /\ head'.on = head.on /\ head'.done = head.done /\ head'.exlen = head.exlen
          /\ head'.name = head.name /\ head'.comment = head.comment
      <3> HIDE DEF save, at
      <3>1. CASE head' = head
        BY <3>1
      <3>2. CASE head' = [head EXCEPT !.extra = save]
        BY <1>5, <3>2, HeadExtraIs
      <3>3. QED
        BY <1>2, <3>1, <3>2
    <2>2. head.done # 1 /\ sym.k = "none"
      BY <1>3, CodeBegun DEF Saved, HeadModes
    <2>3. ASSUME head.on, "extra" \in flags.f
          PROVE  head'.extra = Min2(head.exlen - length', ExtraMax) /\ length' \in Nat /\ length' <= head.exlen
      <3>1. head.extra = Min2(at, ExtraMax) /\ at \in Nat
        BY <1>3, <1>4, <2>3 DEF Saved
      <3>2. length' = length - m /\ length' \in Nat /\ length' <= head.exlen
        BY <1>1, <1>4, <2>3, <3>1
      <3>3. head.exlen - length' = at + m
        BY <1>1, <1>4, <3>2
      <3>4. CASE head' = head /\ (m = 0 \/ at >= ExtraMax)
        <4>1. Min2(at + m, ExtraMax) = Min2(at, ExtraMax)
          BY <1>1, <1>4, <3>4 DEF Min2
        <4>2. QED
          BY <3>1, <3>2, <3>3, <3>4, <4>1
      <3>5. CASE at < ExtraMax /\ head' = [head EXCEPT !.extra = save]
        <4>1. head.extra = at
          BY <1>4, <3>1, <3>5 DEF Min2
        <4>2. head'.extra = at + Min2(m, ExtraMax - at)
          BY <1>5, <3>5, <4>1, HeadExtraIs
        <4>3. at + Min2(m, ExtraMax - at) = Min2(at + m, ExtraMax)
          BY <1>1, <1>4 DEF Min2
        <4>4. QED
          BY <3>2, <3>3, <4>2, <4>3
      <3>6. QED
        BY <1>2, <2>3, <3>4, <3>5
    <2>4. mode' = "NAME" => length' = 0
      BY <1>1
    <2>5. head.on /\ "extra" \in flags.f =>
            /\ mode' = "EXTRA" => length' <= head'.exlen /\ head'.extra = Min2(head'.exlen - length', ExtraMax)
            /\ mode' = "NAME" => head'.extra = Min2(head'.exlen, ExtraMax)
      BY <1>4, <2>1, <2>3, <2>4
    <2>6. mode' \in {"EXTRA", "NAME"}
      BY <1>1
    <2> HIDE DEF at, save
    <2>7. QED
      BY <1>3, <2>1, <2>2, <2>4, <2>5, <2>6 DEF Saved, HeaderSaved
  <1>22. QED
    BY <1>6, <1>7, <1>8, <1>9, <1>10, <1>11, <1>12, <1>13, <1>14, <1>15, <1>16, <1>17, <1>18, <1>19,
      <1>20, <1>21

\* case NAME, a piece of it.
LEMMA TextNameKeeps ==
    ASSUME IInv, NEW r \in TextLens \cup {sym.n}, Text("NAME", "name", r)
    PROVE  IInv'
  <1> DEFINE c == have - have'
             saved == TextSaved(c)
  <1>1. /\ r \in Nat /\ r > 0 /\ r \in (IF sym.k = "text" THEN {sym.n} ELSE TextLens)
        /\ c \in Nat /\ saved \in Nat
        /\ c > 0 /\ c <= r /\ c <= have /\ have' = have - c /\ hdr' = hdr + c
        /\ check' = HeadSum(flags.f, c)
        /\ head' = (IF head.on THEN [head EXCEPT !["name"] = saved] ELSE head)
        /\ \/ /\ c = have /\ c < r /\ length' = saved /\ sym' = [k |-> "text", n |-> r - c, x |-> 0]
              /\ mode' = mode /\ pc' = "leave"
           \/ c = r /\ length' = 0 /\ sym' = NoSym /\ pc' = "run" /\ mode' = "COMMENT"
    BY TextDoes
  <1>2. /\ mode = "NAME" /\ "name" \in flags.f /\ pc = "run" /\ fast = "no"
        /\ UNCHANGED <<last, wrap, flags, havedict, total, put, offset, extra, winVars, bits,
                       tabVars, callVars, left, fast, ret, req, hist, valid, faults>>
    BY DEF Text, Running
  <1>3. sym.k \in {"none", "text"} /\ bits = 0
    BY <1>2, CodeBegun DEF HeldInHeader
  <1> HIDE DEF c, saved
  <1>4. (FlagsType /\ OutTypes /\ NoBitFaults /\ CopiesRight)'
    BY <1>2 DEF FlagsType, OutTypes, NoBitFaults, CopiesRight
  <1>5. ControlTypes'
    BY <1>1, <1>2 DEF ControlTypes, Modes, HeadModes
  <1>6. InTypes'
    BY <1>1, <1>2 DEF InTypes
  <1>7. CountTypes'
    BY <1>1, <1>2 DEF CountTypes
  <1>8. CodeTypes'
    BY <1>1, <1>2 DEF CodeTypes
  <1>9. CheckType'
    BY <1>1, HeadSumIs DEF CheckType, CountTypes
  <1>10. HeadType'
    BY <1>1, HeadNameIs DEF HeadType
  <1>11. SymType'
    <2>1. CASE sym' = NoSym
      BY <2>1 DEF SymType, SymKinds, NoSym
    <2>2. CASE c < r /\ sym' = [k |-> "text", n |-> r - c, x |-> 0]
      <3>1. r - c \in Nat
        BY <1>1, <2>2
      <3>2. QED
        BY <2>2, <3>1 DEF SymType, SymKinds
    <2>3. QED
      BY <1>1, <2>1, <2>2
  <1>12. InCall'
    BY <1>1, <1>2 DEF InCall, InTypes
  <1>13. Begun'
    BY <1>1, <1>2 DEF Begun, NoSym
  <1>14. Counting'
    BY <1>1, <1>2 DEF Counting
  <1>15. (HeldInHeader /\ HeldInBlock)'
    BY <1>2, InflateAssumption DEF HeldInHeader, HeldInBlock
  <1>16. HeldInCode'
    BY <1>1, <1>2 DEF HeldInCode, NoSym
  <1>17. Margins'
    BY <1>2 DEF Margins
  <1>18. Counted'
    BY <1>2 DEF Counted, Made, HeadModes
  <1>19. Shape'
    BY <1>1, <1>2 DEF Shape
  <1>20. Content'
    BY <1>2, ContentKept DEF Base, Made, HeadModes
  <1>21. Sums'
    BY <1>1, <1>2, HeadSumIs DEF Sums, CountTypes, BlockModes
  <1>22. Judged'
    BY <1>1, <1>2 DEF Judged
  <1>23. Saved'
    <2>1. /\ head'.on = head.on /\ head'.done = head.done /\ head'.exlen = head.exlen
          /\ head'.extra = head.extra /\ head'.comment = head.comment
          /\ head.on => head'.name = saved
      BY <1>1, HeadNameIs
    <2>2. head.done # 1
      BY <1>2 DEF Saved, HeadModes
    <2>3. ASSUME head.on
          PROVE  \E t \in TextLens : r - c <= t /\ saved = Min2(t - (r - c), TextMax)
      <3>1. saved = Min2(length + c, TextMax) /\ TextMax \in Nat /\ length \in Nat
        BY <2>3, InflateAssumption DEF saved, TextSaved, CodeTypes
      <3>2. CASE sym.k = "text"
        <4>1. PICK t \in TextLens : sym.n <= t /\ length = Min2(t - sym.n, TextMax)
          BY <1>2, <2>3, <3>2 DEF Saved
        <4>2. t \in Nat /\ r = sym.n
          BY <1>1, <3>2, InflateAssumption
        <4>3. r - c <= t /\ Min2(length + c, TextMax) = Min2(t - (r - c), TextMax)
          BY <1>1, <4>1, <4>2 DEF Min2
        <4>4. QED
          BY <3>1, <4>3
      <3>3. CASE sym.k = "none"
        <4>1. length = 0 /\ r \in TextLens
          BY <1>1, <1>2, <3>3 DEF Saved
        <4>2. r - c <= r /\ r - (r - c) = c /\ length + c = c
          BY <1>1, <4>1
        <4>3. QED
          BY <3>1, <4>1, <4>2
      <3>4. QED
        BY <1>3, <3>2, <3>3
    <2>4. CASE c < r /\ length' = saved /\ sym' = [k |-> "text", n |-> r - c, x |-> 0] /\ mode' = mode
      <3>1. sym'.k = "text" /\ sym'.n = r - c
        BY <2>4
      <3>2. QED
        BY <1>2, <2>1, <2>2, <2>3, <2>4, <3>1 DEF Saved, HeaderSaved, HeadModes
    <2>5. CASE c = r /\ length' = 0 /\ sym' = NoSym /\ mode' = "COMMENT"
      <3>1. head.on => \E t \in TextLens : saved = Min2(t, TextMax)
        <4>1. ASSUME NEW t \in TextLens PROVE t - (r - c) = t
          BY <1>1, <2>5
        <4>2. QED
          BY <2>3, <4>1
      <3>2. sym'.k = "none"
        BY <2>5 DEF NoSym
      <3>3. QED
        BY <1>2, <2>1, <2>2, <2>5, <3>1, <3>2 DEF Saved, HeaderSaved, HeadModes
    <2>6. QED
      BY <1>1, <2>4, <2>5
  <1>24. QED
    BY <1>4, <1>5, <1>6, <1>7, <1>8, <1>9, <1>10, <1>11, <1>12, <1>13, <1>14, <1>15, <1>16, <1>17,
      <1>18, <1>19, <1>20, <1>21, <1>22, <1>23

\* case COMMENT, a piece of it.
LEMMA TextCommentKeeps ==
    ASSUME IInv, NEW r \in TextLens \cup {sym.n}, Text("COMMENT", "comment", r)
    PROVE  IInv'
  <1> DEFINE c == have - have'
             saved == TextSaved(c)
  <1>1. /\ r \in Nat /\ r > 0 /\ r \in (IF sym.k = "text" THEN {sym.n} ELSE TextLens)
        /\ c \in Nat /\ saved \in Nat
        /\ c > 0 /\ c <= r /\ c <= have /\ have' = have - c /\ hdr' = hdr + c
        /\ check' = HeadSum(flags.f, c)
        /\ head' = (IF head.on THEN [head EXCEPT !["comment"] = saved] ELSE head)
        /\ \/ /\ c = have /\ c < r /\ length' = saved /\ sym' = [k |-> "text", n |-> r - c, x |-> 0]
              /\ mode' = mode /\ pc' = "leave"
           \/ c = r /\ length' = 0 /\ sym' = NoSym /\ pc' = "run" /\ mode' = "HCRC"
    BY TextDoes
  <1>2. /\ mode = "COMMENT" /\ "comment" \in flags.f /\ pc = "run" /\ fast = "no"
        /\ UNCHANGED <<last, wrap, flags, havedict, total, put, offset, extra, winVars, bits,
                       tabVars, callVars, left, fast, ret, req, hist, valid, faults>>
    BY DEF Text, Running
  <1>3. sym.k \in {"none", "text"} /\ bits = 0
    BY <1>2, CodeBegun DEF HeldInHeader
  <1> HIDE DEF c, saved
  <1>4. (FlagsType /\ OutTypes /\ NoBitFaults /\ CopiesRight)'
    BY <1>2 DEF FlagsType, OutTypes, NoBitFaults, CopiesRight
  <1>5. ControlTypes'
    BY <1>1, <1>2 DEF ControlTypes, Modes, HeadModes
  <1>6. InTypes'
    BY <1>1, <1>2 DEF InTypes
  <1>7. CountTypes'
    BY <1>1, <1>2 DEF CountTypes
  <1>8. CodeTypes'
    BY <1>1, <1>2 DEF CodeTypes
  <1>9. CheckType'
    BY <1>1, HeadSumIs DEF CheckType, CountTypes
  <1>10. HeadType'
    BY <1>1, HeadCommentIs DEF HeadType
  <1>11. SymType'
    <2>1. CASE sym' = NoSym
      BY <2>1 DEF SymType, SymKinds, NoSym
    <2>2. CASE c < r /\ sym' = [k |-> "text", n |-> r - c, x |-> 0]
      <3>1. r - c \in Nat
        BY <1>1, <2>2
      <3>2. QED
        BY <2>2, <3>1 DEF SymType, SymKinds
    <2>3. QED
      BY <1>1, <2>1, <2>2
  <1>12. InCall'
    BY <1>1, <1>2 DEF InCall, InTypes
  <1>13. Begun'
    BY <1>1, <1>2 DEF Begun, NoSym
  <1>14. Counting'
    BY <1>1, <1>2 DEF Counting
  <1>15. (HeldInHeader /\ HeldInBlock)'
    BY <1>2, InflateAssumption DEF HeldInHeader, HeldInBlock
  <1>16. HeldInCode'
    BY <1>1, <1>2 DEF HeldInCode, NoSym
  <1>17. Margins'
    BY <1>2 DEF Margins
  <1>18. Counted'
    BY <1>2 DEF Counted, Made, HeadModes
  <1>19. Shape'
    BY <1>1, <1>2 DEF Shape
  <1>20. Content'
    BY <1>2, ContentKept DEF Base, Made, HeadModes
  <1>21. Sums'
    BY <1>1, <1>2, HeadSumIs DEF Sums, CountTypes, BlockModes
  <1>22. Judged'
    BY <1>1, <1>2 DEF Judged
  <1>23. Saved'
    <2>1. /\ head'.on = head.on /\ head'.done = head.done /\ head'.exlen = head.exlen
          /\ head'.extra = head.extra /\ head'.name = head.name
          /\ head.on => head'.comment = saved
      BY <1>1, HeadCommentIs
    <2>2. head.done # 1
      BY <1>2 DEF Saved, HeadModes
    <2>3. ASSUME head.on
          PROVE  \E t \in TextLens : r - c <= t /\ saved = Min2(t - (r - c), TextMax)
      <3>1. saved = Min2(length + c, TextMax) /\ TextMax \in Nat /\ length \in Nat
        BY <2>3, InflateAssumption DEF saved, TextSaved, CodeTypes
      <3>2. CASE sym.k = "text"
        <4>1. PICK t \in TextLens : sym.n <= t /\ length = Min2(t - sym.n, TextMax)
          BY <1>2, <2>3, <3>2 DEF Saved
        <4>2. t \in Nat /\ r = sym.n
          BY <1>1, <3>2, InflateAssumption
        <4>3. r - c <= t /\ Min2(length + c, TextMax) = Min2(t - (r - c), TextMax)
          BY <1>1, <4>1, <4>2 DEF Min2
        <4>4. QED
          BY <3>1, <4>3
      <3>3. CASE sym.k = "none"
        <4>1. length = 0 /\ r \in TextLens
          BY <1>1, <1>2, <3>3 DEF Saved
        <4>2. r - c <= r /\ r - (r - c) = c /\ length + c = c
          BY <1>1, <4>1
        <4>3. QED
          BY <3>1, <4>1, <4>2
      <3>4. QED
        BY <1>3, <3>2, <3>3
    <2>4. CASE c < r /\ length' = saved /\ sym' = [k |-> "text", n |-> r - c, x |-> 0] /\ mode' = mode
      <3>1. sym'.k = "text" /\ sym'.n = r - c
        BY <2>4
      <3>2. QED
        BY <1>2, <2>1, <2>2, <2>3, <2>4, <3>1 DEF Saved, HeaderSaved, HeadModes
    <2>5. CASE c = r /\ length' = 0 /\ sym' = NoSym /\ mode' = "HCRC"
      <3>1. head.on => \E t \in TextLens : saved = Min2(t, TextMax)
        <4>1. ASSUME NEW t \in TextLens PROVE t - (r - c) = t
          BY <1>1, <2>5
        <4>2. QED
          BY <2>3, <4>1
      <3>2. sym'.k = "none"
        BY <2>5 DEF NoSym
      <3>3. QED
        BY <1>2, <2>1, <2>2, <2>5, <3>1, <3>2 DEF Saved, HeaderSaved, HeadModes
    <2>6. QED
      BY <1>1, <2>4, <2>5
  <1>24. QED
    BY <1>4, <1>5, <1>6, <1>7, <1>8, <1>9, <1>10, <1>11, <1>12, <1>13, <1>14, <1>15, <1>16, <1>17,
      <1>18, <1>19, <1>20, <1>21, <1>22, <1>23

\* case NAME, none.
LEMMA NoTextNameKeeps ==
    ASSUME IInv, NoText("NAME", "name")
    PROVE  IInv'
  <1> USE DEF NoText, Running, Leave, Stay
  <1>1. (FlagsType /\ CheckType /\ HeadType /\ SymType /\ InTypes /\ OutTypes /\ CountTypes /\ Margins /\
         NoBitFaults /\ CopiesRight)'
    BY DEF FlagsType, CheckType, HeadType, SymType, InTypes, OutTypes, CountTypes, Margins,
      NoBitFaults, CopiesRight
  <1>2. (ControlTypes /\ CodeTypes)'
    BY DEF ControlTypes, Modes, HeadModes, CodeTypes
  <1>3. Calling'
    BY DEF InCall, Begun, Counting
  <1>4. Buffered'
    BY DEF HeldInCode, HeldInHeader, HeldInBlock
  <1>5. Counted'
    BY DEF Counted, Made, HeadModes
  <1>6. Shape'
    BY WindowSizes DEF Shape, NoFlags
  <1>7. Content'
    BY ContentKept DEF Base, Made, HeadModes
  <1>8. Sums'
    BY DEF Sums, BlockModes
  <1>9. Judged'
    BY DEF Judged, Judge
  <1>10. Saved'
    BY DEF Saved, HeaderSaved, HeadModes, Begun
  <1>11. QED
    BY <1>1, <1>2, <1>3, <1>4, <1>5, <1>6, <1>7, <1>8, <1>9, <1>10

\* case COMMENT, none.
LEMMA NoTextCommentKeeps ==
    ASSUME IInv, NoText("COMMENT", "comment")
    PROVE  IInv'
  <1> USE DEF NoText, Running, Leave, Stay
  <1>1. (FlagsType /\ CheckType /\ HeadType /\ SymType /\ InTypes /\ OutTypes /\ CountTypes /\ Margins /\
         NoBitFaults /\ CopiesRight)'
    BY DEF FlagsType, CheckType, HeadType, SymType, InTypes, OutTypes, CountTypes, Margins,
      NoBitFaults, CopiesRight
  <1>2. (ControlTypes /\ CodeTypes)'
    BY DEF ControlTypes, Modes, HeadModes, CodeTypes
  <1>3. Calling'
    BY DEF InCall, Begun, Counting
  <1>4. Buffered'
    BY DEF HeldInCode, HeldInHeader, HeldInBlock
  <1>5. Counted'
    BY DEF Counted, Made, HeadModes
  <1>6. Shape'
    BY WindowSizes DEF Shape, NoFlags
  <1>7. Content'
    BY ContentKept DEF Base, Made, HeadModes
  <1>8. Sums'
    BY DEF Sums, BlockModes
  <1>9. Judged'
    BY DEF Judged, Judge
  <1>10. Saved'
    BY DEF Saved, HeaderSaved, HeadModes
  <1>11. QED
    BY <1>1, <1>2, <1>3, <1>4, <1>5, <1>6, <1>7, <1>8, <1>9, <1>10

\* case HCRC.
LEMMA HcrcKeeps ==
    ASSUME IInv, NEW good \in BOOLEAN, Hcrc(good)
    PROVE  IInv'
  <1>1. /\ mode = "HCRC" /\ pc = "run" /\ fast = "no"
        /\ UNCHANGED <<last, wrap, flags, havedict, total, put, codeVars, winVars, tabVars, callVars,
                       left, fast, ret, pc, sym, req, hist, faults>>
    BY DEF Hcrc, Running
  <1>2. /\ have' \in Nat /\ have' <= have /\ bits' \in Nat
        /\ \/ /\ "hcrc" \in flags.f /\ "check" \in wrap /\ mode' = "BAD" /\ bits' <= bits + 23
              /\ ~(good /\ check = [of |-> "head", n |-> hdr])
              /\ valid' = (IF good THEN valid ELSE "bad") /\ UNCHANGED <<head, check, hdr>>
           \/ /\ mode' = "TYPE" /\ valid' = (IF good THEN valid ELSE "bad")
              /\ IF "hcrc" \in flags.f THEN bits' = 0 ELSE bits' = bits /\ have' = have
              /\ ~good => "hcrc" \in flags.f /\ "check" \notin wrap
              /\ head' = (IF head.on THEN [head EXCEPT !.done = 1] ELSE head)
              /\ check' = (IF "check" \in wrap THEN NoCheck ELSE check) /\ hdr' = 0
    BY HcrcDoes
  <1>3. sym.k = "none" /\ bits \in Nat /\ bits <= 15 /\ ("hcrc" \notin flags.f => bits = 0)
    BY <1>1, CodeBegun DEF HeldInHeader, InTypes
  <1>4. (FlagsType /\ SymType /\ OutTypes /\ CodeTypes /\ NoBitFaults /\ CopiesRight)'
    BY <1>1, <1>2, <1>3 DEF FlagsType, SymType, OutTypes, CodeTypes, NoBitFaults, CopiesRight
  <1>5. ControlTypes'
    BY <1>1, <1>2 DEF ControlTypes, Modes, BlockModes
  <1>6. CheckType'
    BY <1>2 DEF CheckType, CheckValues, NoCheck
  <1>7. InTypes'
    BY <1>1, <1>2 DEF InTypes
  <1>8. CountTypes'
    BY <1>1, <1>2 DEF CountTypes
  <1>9. HeadType'
    BY <1>2, HeadDoneIs DEF HeadType
  <1>10. Calling'
    BY <1>1, <1>2 DEF InCall, InTypes, Begun, Counting
  <1>11. HeldInHeader'
    BY <1>2 DEF HeldInHeader
  <1>12. HeldInCode'
    <2>1. bits' <= 39 /\ mode' \in {"BAD", "TYPE"}
      BY <1>2, <1>3
    <2>2. QED
      BY <1>1, <1>3, <2>1 DEF HeldInCode
  <1>13. HeldInBlock'
    <2>1. mode' = "BAD" \/ (mode' = "TYPE" /\ bits' = 0)
      BY <1>2, <1>3
    <2>2. QED
      BY <2>1 DEF HeldInBlock
  <1>14. Margins'
    BY <1>1 DEF Margins
  <1>15. Counted'
    BY <1>1 DEF Counted, Made, HeadModes
  <1>16. Shape'
    BY <1>1, <1>2, <1>3, WindowSizes DEF Shape, NoFlags
  <1>17. Content'
    BY <1>1, ContentKept DEF Base, Made, HeadModes
  <1>18. Sums'
    <2>1. put = 0 /\ Made' = 0 /\ put' = 0
      BY <1>1 DEF Counted, HeadModes, Made
    <2>2. QED
      BY <1>1, <1>2, <2>1 DEF Sums, BlockModes, NoCheck
  <1>19. Judged'
    <2>1. "check" \in wrap => valid # "bad" /\ ("hcrc" \in flags.f => check = [of |-> "head", n |-> hdr])
      BY <1>1 DEF Judged, Sums
    <2>2. CASE mode' = "BAD"
      <3>1. ~good
        BY <1>2, <2>1, <2>2
      <3>2. QED
        BY <1>1, <1>2, <2>2, <3>1 DEF Judged
    <2>3. CASE mode' = "TYPE"
      <3>1. "check" \in wrap => valid' # "bad"
        BY <1>2, <2>1, <2>3
      <3>2. QED
        BY <1>1, <2>3, <3>1 DEF Judged
    <2>4. QED
      BY <1>2, <2>2, <2>3
  <1>20. Saved'
    <2>1. CASE mode' = "BAD"
      BY <1>1, <1>2, <2>1 DEF Saved, HeaderSaved, HeadModes
    <2>2. CASE mode' = "TYPE" /\ head' = (IF head.on THEN [head EXCEPT !.done = 1] ELSE head)
      <3>1. /\ head'.on = head.on /\ head'.exlen = head.exlen
            /\ head'.extra = head.extra /\ head'.name = head.name /\ head'.comment = head.comment
        BY <2>2, HeadDoneIs
      <3>2. QED
        BY <1>1, <1>3, <2>2, <3>1 DEF Saved, HeaderSaved, HeadModes
    <2>3. QED
      BY <1>2, <2>1, <2>2
  <1>21. QED
    BY <1>4, <1>5, <1>6, <1>7, <1>8, <1>9, <1>10, <1>11, <1>12, <1>13, <1>14, <1>15, <1>16, <1>17,
      <1>18, <1>19, <1>20

\* case DICTID.
LEMMA DictIdKeeps ==
    ASSUME IInv, DictId
    PROVE  IInv'
  <1> USE DEF DictId, Running
  <1>1. (FlagsType /\ HeadType /\ SymType /\ OutTypes /\ CountTypes /\ CodeTypes /\ NoBitFaults /\
         CopiesRight)'
    BY DEF FlagsType, HeadType, SymType, OutTypes, CountTypes, CodeTypes, NoBitFaults, CopiesRight
  <1>2. (ControlTypes /\ CheckType /\ InTypes)'
    BY TakeAllIs DEF ControlTypes, Modes, HeadModes, CheckType, CheckValues, InTypes
  <1>3. Calling'
    BY TakeAllIs DEF InCall, InTypes, Begun, Counting
  <1>4. Buffered'
    BY TakeAllIs, CodeBegun DEF HeldInCode, HeldInHeader, HeldInBlock
  <1>5. Margins'
    BY TakeAllIs DEF Margins, InCall
  <1>6. Counted'
    BY DEF Counted, Made, HeadModes
  <1>7. Shape'
    BY DEF Shape
  <1>8. Content'
    BY ContentKept DEF Base, Made, HeadModes
  <1>9. Sums'
    BY DEF Sums, BlockModes
  <1>10. Judged'
    BY TakeAllIs DEF Judged, Judge
  <1>11. Saved'
    BY DEF Saved, HeaderSaved, HeadModes
  <1>12. QED
    BY <1>1, <1>2, <1>3, <1>4, <1>5, <1>6, <1>7, <1>8, <1>9, <1>10, <1>11

\* case DICT, without a dictionary.
LEMMA NeedDictKeeps ==
    ASSUME IInv, NeedDict
    PROVE  IInv'
  <1> USE DEF NeedDict, Running
  <1>1. (FlagsType /\ CheckType /\ HeadType /\ SymType /\ CountTypes /\ CodeTypes /\ Begun /\ Counting /\
         HeldInCode /\ HeldInHeader /\ HeldInBlock /\ NoBitFaults /\ CopiesRight /\ Shape /\ Judged /\
         Saved)'
    BY DEF FlagsType, CheckType, HeadType, SymType, CountTypes, CodeTypes, Begun, Counting,
      HeldInCode, HeldInHeader, HeldInBlock, NoBitFaults, CopiesRight, Shape, Judged, Saved,
      HeaderSaved
  <1>2. (ControlTypes /\ InTypes /\ OutTypes)'
    BY DEF ControlTypes, InTypes, OutTypes
  <1>3. InCall'
    BY DEF InCall
  <1>4. Margins'
    BY DEF Margins, InCall
  <1>5. Counted'
    BY DEF Counted, Made, HeadModes
  <1>6. Content'
    BY ContentKept DEF Base, Made, HeadModes, Counted
  <1>7. Sums'
    BY DEF Sums, BlockModes
  <1>8. QED
    BY <1>1, <1>2, <1>3, <1>4, <1>5, <1>6, <1>7

\* case DICT, with one.
LEMMA HaveDictKeeps ==
    ASSUME IInv, HaveDict
    PROVE  IInv'
  <1> USE DEF HaveDict, Running
  <1>1. (FlagsType /\ HeadType /\ SymType /\ InTypes /\ OutTypes /\ CountTypes /\ CodeTypes /\ Margins /\
         NoBitFaults /\ CopiesRight)'
    BY DEF FlagsType, HeadType, SymType, InTypes, OutTypes, CountTypes, CodeTypes, Margins,
      NoBitFaults, CopiesRight
  <1>2. ControlTypes'
    <2>1. mode' \in Modes
      BY DEF Modes, BlockModes
    <2>2. QED
      BY <2>1 DEF ControlTypes
  <1>3. CheckType'
    BY DEF CheckType, CheckValues, NoCheck, CountTypes
  <1>4. Calling'
    BY DEF InCall, Begun, Counting
  <1>5. Buffered'
    BY DEF HeldInCode, HeldInHeader, HeldInBlock
  <1>6. Counted'
    BY DEF Counted, Made, HeadModes
  <1>7. Shape'
    BY DEF Shape
  <1>8. Content'
    BY ContentKept DEF Base, Made, HeadModes
  <1>9. Sums'
    <2>1. Made' = 0 /\ put' = 0
      BY DEF Counted, Made, HeadModes
    <2>2. QED
      BY <2>1 DEF Sums, NoCheck
  <1>10. Judged'
    BY DEF Judged, Judge
  <1>11. Saved'
    BY DEF Saved, HeaderSaved, HeadModes
  <1>12. QED
    BY <1>1, <1>2, <1>3, <1>4, <1>5, <1>6, <1>7, <1>8, <1>9, <1>10, <1>11

-----------------------------------------------------------------------------
(* Blocks.                                                                 *)

\* case TYPE.
LEMMA TypeKeeps ==
    ASSUME IInv, Type
    PROVE  IInv'
  <1> USE DEF Type, Running, Leave, Stay
  <1>1. (CheckType /\ SymType /\ InTypes /\ OutTypes /\ CountTypes /\ CodeTypes /\ Margins /\
         NoBitFaults /\ CopiesRight)'
    BY DEF CheckType, SymType, InTypes, OutTypes, CountTypes, CodeTypes, Margins, NoBitFaults,
      CopiesRight
  <1>2. ControlTypes'
    BY DEF ControlTypes, Modes, BlockModes
  <1>3. FlagsType'
    BY DEF FlagsType, NoFlags
  <1>4. HeadType'
    BY FreshHead DEF HeadType
  <1>5. Calling'
    BY DEF InCall, Begun, Counting
  <1>6. HeldInCode'
    BY DEF HeldInCode
  <1>7. HeldInHeader'
    BY DEF HeldInHeader
  <1>8. HeldInBlock'
    BY DEF HeldInBlock
  <1>9. Counted'
    BY DEF Counted, Made, HeadModes
  <1>10. Shape'
    BY DEF Shape
  <1>11. Content'
    BY ContentKept DEF Base, Made, BlockModes
  <1>12. Sums'
    BY DEF Sums, Made, BlockModes
  <1>13. Judged'
    BY DEF Judged, Judge
  <1>14. Saved'
    BY FreshHead DEF Saved, HeaderSaved
  <1>15. QED
    BY <1>1, <1>2, <1>3, <1>4, <1>5, <1>6, <1>7, <1>8, <1>9, <1>10, <1>11, <1>12, <1>13, <1>14

\* case TYPEDO, after the last block.
LEMMA LastBlockKeeps ==
    ASSUME IInv, LastBlock
    PROVE  IInv'
  <1> USE DEF LastBlock, Running, Aligned
  <1>1. (FlagsType /\ CheckType /\ HeadType /\ SymType /\ OutTypes /\ CountTypes /\ CodeTypes /\
         NoBitFaults /\ CopiesRight)'
    BY DEF FlagsType, CheckType, HeadType, SymType, OutTypes, CountTypes, CodeTypes, NoBitFaults,
      CopiesRight
  <1>2. (ControlTypes /\ InTypes)'
    BY DEF ControlTypes, Modes, InTypes
  <1>3. Calling'
    BY DEF InCall, Begun, Counting
  <1>4. Buffered'
    BY CodeBegun DEF HeldInCode, InTypes, HeldInHeader, HeldInBlock
  <1>5. Margins'
    BY AlignedIs DEF Margins, InCall
  <1>6. Counted'
    BY DEF Counted, Made, HeadModes
  <1>7. Shape'
    BY DEF Shape
  <1>8. Content'
    BY ContentKept DEF Base, Made, BlockModes
  <1>9. Sums'
    BY DEF Sums, Made, BlockModes
  <1>10. Judged'
    BY AlignedIs DEF Judged, Judge
  <1>11. Saved'
    BY DEF Saved, HeaderSaved, HeadModes
  <1>12. QED
    BY <1>1, <1>2, <1>3, <1>4, <1>5, <1>6, <1>7, <1>8, <1>9, <1>10, <1>11

\* case TYPEDO, a block.
LEMMA BlockHeaderKeeps ==
    ASSUME IInv, NEW final \in BOOLEAN, NEW kind \in {"stored", "fixed", "dynamic", "bad"}, BlockHeader(final, kind)
    PROVE  IInv'
  <1> USE DEF BlockHeader, Running, Leave, Stay
  <1>1. /\ bits \in Nat /\ bits' \in Nat /\ PrimeMax \in Nat
        /\ bits <= 16 /\ (bits <= 7 \/ bits <= PrimeMax) /\ (bits' <= 7 \/ bits' = bits - 3)
    <2>1. Enough(3) /\ Take(3)
      OBVIOUS
    <2>2. bits \in Nat /\ bits <= 16 /\ (bits <= 7 \/ bits <= PrimeMax)
      BY DEF HeldInBlock, InTypes
    <2> HIDE DEF BlockHeader
    <2>3. bits' \in Nat /\ (bits' <= 7 \/ bits' = bits - 3)
      BY <2>1, TakeIs
    <2>4. QED
      BY <2>2, <2>3, InflateAssumption
  <1>2. sym'.k = "none" /\ fast' = "no" /\ mode' \in {"STORED", "LEN_", "TABLE", "BAD"}
    BY CodeBegun
  <1>3. bits' <= 13 /\ (bits' <= 7 \/ bits' + 3 <= PrimeMax)
    <2> HIDE DEF BlockHeader
    <2>1. QED
      BY <1>1, HeaderBits
  <1>4. (FlagsType /\ CheckType /\ HeadType /\ SymType /\ OutTypes /\ CountTypes /\ CodeTypes /\
         NoBitFaults /\ CopiesRight)'
    BY DEF FlagsType, CheckType, HeadType, SymType, OutTypes, CountTypes, CodeTypes, NoBitFaults,
      CopiesRight
  <1>5. ControlTypes'
    BY DEF ControlTypes, Modes, BlockModes
  <1>6. InTypes'
    BY TakeIs DEF InTypes, CodeTypes
  <1>7. Calling'
    BY TakeIs DEF InCall, InTypes, Begun, Counting
  <1>8. HeldInHeader'
    BY DEF HeldInHeader
  <1>9. HeldInCode'
    <2>1. sym'.k = "none" /\ mode' \notin {"CODELENS", "DIST"} /\ bits' <= 39
      BY <1>1, <1>2, <1>3
    <2> HIDE DEF BlockHeader
    <2>2. QED
      BY <1>3, <2>1 DEF HeldInCode
  <1>10. HeldInBlock'
    <2> HIDE DEF BlockHeader
    <2>1. QED
      BY <1>1, <1>2, <1>3 DEF HeldInBlock
  <1>11. Margins'
    BY TakeIs DEF Margins, InCall
  <1>12. Counted'
    BY DEF Counted, Made, HeadModes
  <1>13. Shape'
    BY DEF Shape
  <1>14. Content'
    BY ContentKept DEF Base, Made, BlockModes
  <1>15. Sums'
    BY DEF Sums, Made, BlockModes
  <1>16. Judged'
    BY TakeIs DEF Judged, Judge
  <1>17. Saved'
    BY DEF Saved, HeaderSaved, HeadModes
  <1>18. QED
    BY <1>4, <1>5, <1>6, <1>7, <1>8, <1>9, <1>10, <1>11, <1>12, <1>13, <1>14, <1>15, <1>16, <1>17

\* case STORED.
LEMMA StoredKeeps ==
    ASSUME IInv, NEW n \in StoredLens, Stored(n)
    PROVE  IInv'
  <1> USE DEF Stored, Running, EnoughNow, Aligned, Leave, Stay
  <1>1. (FlagsType /\ CheckType /\ HeadType /\ SymType /\ OutTypes /\ CountTypes /\ NoBitFaults /\
         CopiesRight)'
    BY DEF FlagsType, CheckType, HeadType, SymType, OutTypes, CountTypes, NoBitFaults, CopiesRight
  <1>2. (ControlTypes /\ InTypes /\ CodeTypes)'
    BY InflateAssumption, BitsOfIs DEF ControlTypes, Modes, BlockModes, InTypes, CodeTypes
  <1>3. InCall'
    BY AlignedIs DEF InCall, InTypes, OutTypes, CodeTypes, HeldInBlock
  <1>4. Begun'
    BY DEF Begun
  <1>5. Counting'
    BY BitsOfIs, AlignedIs DEF Counting, CodeTypes
  <1>6. Buffered'
    BY CodeBegun DEF HeldInCode, InTypes, HeldInHeader, HeldInBlock
  <1>7. Margins'
    BY BitsOfIs, AlignedIs DEF Margins, InCall
  <1>8. Counted'
    BY DEF Counted, Made, HeadModes
  <1>9. Shape'
    BY DEF Shape
  <1>10. Content'
    BY ContentKept DEF Base, Made, BlockModes
  <1>11. Sums'
    BY DEF Sums, Made, BlockModes
  <1>12. Judged'
    BY BitsOfIs, AlignedIs DEF Judged, Judge
  <1>13. Saved'
    BY DEF Saved, HeaderSaved, HeadModes
  <1>14. QED
    BY <1>1, <1>2, <1>3, <1>4, <1>5, <1>6, <1>7, <1>8, <1>9, <1>10, <1>11, <1>12, <1>13

\* case STORED, lengths that disagree.
LEMMA StoredBadKeeps ==
    ASSUME IInv, StoredBad
    PROVE  IInv'
  <1> USE DEF StoredBad, Running, EnoughNow, Aligned, SetBad
  <1>1. (FlagsType /\ CheckType /\ HeadType /\ SymType /\ OutTypes /\ CountTypes /\ CodeTypes /\
         NoBitFaults /\ CopiesRight)'
    BY DEF FlagsType, CheckType, HeadType, SymType, OutTypes, CountTypes, CodeTypes, NoBitFaults,
      CopiesRight
  <1>2. (ControlTypes /\ InTypes)'
    BY DEF ControlTypes, Modes, InTypes
  <1>3. InCall'
    BY DEF InCall, InTypes, HeldInBlock
  <1>4. Begun'
    BY DEF Begun
  <1>5. Counting'
    BY BitsOfIs, AlignedIs DEF Counting, CodeTypes
  <1>6. HeldInCode'
    BY CodeBegun DEF HeldInCode
  <1>7. HeldInHeader'
    BY DEF HeldInHeader
  <1>8. HeldInBlock'
    BY DEF HeldInBlock
  <1>9. Margins'
    BY BitsOfIs, AlignedIs DEF Margins, InCall
  <1>10. Counted'
    BY DEF Counted, Made, HeadModes
  <1>11. Shape'
    BY DEF Shape
  <1>12. Content'
    BY ContentKept DEF Base, Made, BlockModes
  <1>13. Sums'
    BY DEF Sums, BlockModes
  <1>14. Judged'
    BY BitsOfIs, AlignedIs DEF Judged, Judge
  <1>15. Saved'
    BY DEF Saved, HeaderSaved, HeadModes
  <1>16. QED
    BY <1>1, <1>2, <1>3, <1>4, <1>5, <1>6, <1>7, <1>8, <1>9, <1>10, <1>11, <1>12, <1>13, <1>14,
      <1>15

\* cases COPY_ and COPY.
LEMMA CopyKeeps ==
    ASSUME IInv, Copy
    PROVE  IInv'
  <1> DEFINE m == have - have'
  <1>1. /\ m \in Nat /\ m <= length /\ m <= have /\ m <= left
        /\ have' = have - m /\ length' = length - m /\ left' = left - m
        /\ hist' = hist + m /\ put' = put + m
        /\ \/ length = 0 /\ mode' = "TYPE" /\ pc' = "run" /\ m = 0
           \/ length > 0 /\ mode' = "COPY" /\ m > 0 /\ pc' = "run"
           \/ length > 0 /\ mode' = "COPY" /\ pc' = "leave" /\ m = 0 /\ (have = 0 \/ left = 0)
    BY CopyDoes
  <1>2. /\ mode \in {"COPY_", "COPY"} /\ pc = "run"
        /\ UNCHANGED <<last, headVars, check, total, offset, extra, winVars, bits, tabVars,
                       callVars, fast, ret, sym, req, valid, faults>>
    BY DEF Copy
  <1>3. sym.k = "none" /\ fast = "no" /\ bits = 0 /\ Made' = Made + m
    BY <1>1, <1>2, CodeBegun DEF InCall, HeldInBlock, Made, OutTypes
  <1> HIDE DEF m
  <1>4. (FlagsType /\ CheckType /\ HeadType /\ SymType /\ NoBitFaults /\ CopiesRight)'
    BY <1>1, <1>2, <1>3 DEF FlagsType, CheckType, HeadType, SymType, NoBitFaults, CopiesRight
  <1>5. ControlTypes'
    BY <1>1, <1>2 DEF ControlTypes, Modes, BlockModes
  <1>6. InTypes'
    BY <1>1, <1>2 DEF InTypes
  <1>7. OutTypes'
    BY <1>1, <1>2 DEF OutTypes
  <1>8. CountTypes'
    BY <1>1, <1>2 DEF CountTypes
  <1>9. CodeTypes'
    BY <1>1, <1>2 DEF CodeTypes
  <1>10. Begun'
    BY <1>2, CodeBegun DEF Begun
  <1>11. Counting'
    BY <1>1 DEF Counting
  <1>12. InCall'
    <2>1. have' <= in
      BY <1>1, <1>3 DEF InCall, InTypes
    <2>2. pc' = "leave" => have' = 0 \/ left' = 0
      BY <1>1 DEF InTypes, OutTypes
    <2>3. QED
      BY <1>1, <1>2, <1>3, <2>1, <2>2 DEF InCall
  <1>13. Buffered'
    BY <1>2, InflateAssumption DEF HeldInCode, HeldInHeader, HeldInBlock
  <1>14. Margins'
    BY <1>2, <1>3 DEF Margins
  <1>15. Counted'
    BY <1>1, <1>2 DEF Counted, Made, HeadModes, CountTypes, OutTypes
  <1>16. Shape'
    BY <1>1, <1>2, <1>3, WindowSizes DEF Shape, NoFlags
  <1>17. Content'
    <2>1. Base' = Base
      BY <1>1, <1>3 DEF Base, Made, OutTypes, CountTypes
    <2>2. QED
      BY <1>1, <1>2, <2>1, ContentKept DEF HeadModes, BlockModes
  <1>18. Sums'
    <2>1. put' - Made' = put - Made /\ Made \in Int
      BY <1>1, <1>3 DEF CountTypes, Made, OutTypes
    <2>2. mode' \in {"TYPE", "COPY"}
      BY <1>1
    <2>3. QED
      BY <1>2, <2>1, <2>2 DEF Sums, BlockModes
  <1>19. Judged'
    BY <1>1, <1>2 DEF Judged
  <1>20. Saved'
    BY <1>1, <1>2 DEF Saved, HeaderSaved, HeadModes
  <1>21. QED
    BY <1>4, <1>5, <1>6, <1>7, <1>8, <1>9, <1>10, <1>11, <1>12, <1>13, <1>14, <1>15, <1>16, <1>17,
      <1>18, <1>19, <1>20

\* case TABLE.
LEMMA TableKeeps ==
    ASSUME IInv, NEW c \in NCodes, NEW n \in NLens, Table(c, n)
    PROVE  IInv'
  <1> USE DEF Table, Running
  <1>1. (FlagsType /\ CheckType /\ HeadType /\ SymType /\ OutTypes /\ CountTypes /\ NoBitFaults /\
         CopiesRight)'
    BY DEF FlagsType, CheckType, HeadType, SymType, OutTypes, CountTypes, NoBitFaults, CopiesRight
  <1>2. (ControlTypes /\ InTypes /\ CodeTypes)'
    BY InflateAssumption, TakeIs DEF ControlTypes, Modes, BlockModes, InTypes, CodeTypes
  <1>3. InCall'
    BY TakeIs DEF InCall, InTypes
  <1>4. Begun'
    BY DEF Begun
  <1>5. Counting'
    BY InflateAssumption DEF Counting
  <1>6. HeldInCode'
    BY TakeIs, CodeBegun DEF HeldInCode, InTypes
  <1>7. HeldInHeader'
    BY DEF HeldInHeader
  <1>8. HeldInBlock'
    BY TakeIs DEF HeldInBlock, InTypes
  <1>9. Margins'
    BY TakeIs DEF Margins, InCall
  <1>10. Counted'
    BY DEF Counted, Made, HeadModes
  <1>11. Shape'
    BY DEF Shape
  <1>12. Content'
    BY ContentKept DEF Base, Made, BlockModes
  <1>13. Sums'
    BY DEF Sums, Made, BlockModes
  <1>14. Judged'
    BY TakeIs DEF Judged, Judge
  <1>15. Saved'
    BY DEF Saved, HeaderSaved, HeadModes
  <1>16. QED
    BY <1>1, <1>2, <1>3, <1>4, <1>5, <1>6, <1>7, <1>8, <1>9, <1>10, <1>11, <1>12, <1>13, <1>14,
      <1>15

\* case TABLE, too many codes.
LEMMA TableBadKeeps ==
    ASSUME IInv, TableBad
    PROVE  IInv'
  <1> USE DEF TableBad, Running, SetBad
  <1>1. (FlagsType /\ CheckType /\ HeadType /\ SymType /\ OutTypes /\ CountTypes /\ CodeTypes /\
         NoBitFaults /\ CopiesRight)'
    BY DEF FlagsType, CheckType, HeadType, SymType, OutTypes, CountTypes, CodeTypes, NoBitFaults,
      CopiesRight
  <1>2. ControlTypes'
    BY DEF ControlTypes, Modes
  <1>3. InTypes'
    BY TakeIs DEF InTypes, CodeTypes
  <1>4. Calling'
    BY TakeIs DEF InCall, InTypes, Begun, Counting
  <1>5. HeldInCode'
    BY TakeIs, CodeBegun DEF HeldInCode, InTypes
  <1>6. HeldInHeader'
    BY DEF HeldInHeader
  <1>7. HeldInBlock'
    BY DEF HeldInBlock
  <1>8. Margins'
    BY TakeIs DEF Margins, InCall
  <1>9. Counted'
    BY DEF Counted, Made, HeadModes
  <1>10. Shape'
    BY DEF Shape
  <1>11. Content'
    BY ContentKept DEF Base, Made, BlockModes
  <1>12. Sums'
    BY DEF Sums, BlockModes
  <1>13. Judged'
    BY TakeIs DEF Judged, Judge
  <1>14. Saved'
    BY DEF Saved, HeaderSaved, HeadModes
  <1>15. QED
    BY <1>1, <1>2, <1>3, <1>4, <1>5, <1>6, <1>7, <1>8, <1>9, <1>10, <1>11, <1>12, <1>13, <1>14

\* case LENLENS.
LEMMA LenLensKeeps ==
    ASSUME IInv, NEW good \in BOOLEAN, LenLens(good)
    PROVE  IInv'
  <1> USE DEF LenLens, Running, EnoughNow, SetBad
  <1>1. (FlagsType /\ CheckType /\ HeadType /\ SymType /\ OutTypes /\ CountTypes /\ NoBitFaults /\
         CopiesRight)'
    BY DEF FlagsType, CheckType, HeadType, SymType, OutTypes, CountTypes, NoBitFaults, CopiesRight
  <1>2. ControlTypes'
    BY DEF ControlTypes, Modes, BlockModes
  <1>3. InTypes'
    BY TakeIs, BitsOfIs DEF InTypes
  <1>4. CodeTypes'
    <2>1. lens' \in 0..316
      BY DEF CodeTypes, Counting
    <2>2. QED
      BY <2>1 DEF CodeTypes
  <1>5. InCall'
    BY TakeIs, BitsOfIs DEF InCall, InTypes
  <1>6. Begun'
    BY CodeBegun DEF Begun
  <1>7. Counting'
    BY TakeIs, BitsOfIs DEF Counting, CodeTypes
  <1>8. HeldInCode'
    BY TakeIs, BitsOfIs, CodeBegun DEF HeldInCode, InTypes, HeldInBlock
  <1>9. HeldInHeader'
    BY DEF HeldInHeader
  <1>10. HeldInBlock'
    BY TakeIs, BitsOfIs DEF HeldInBlock, InTypes
  <1>11. Margins'
    BY TakeIs, BitsOfIs DEF Margins, InCall
  <1>12. Counted'
    BY DEF Counted, Made, HeadModes
  <1>13. Shape'
    BY DEF Shape
  <1>14. Content'
    BY ContentKept DEF Base, Made, BlockModes
  <1>15. Sums'
    BY DEF Sums, Made, BlockModes
  <1>16. Judged'
    BY TakeIs, BitsOfIs DEF Judged, Judge
  <1>17. Saved'
    BY DEF Saved, HeaderSaved, HeadModes
  <1>18. QED
    BY <1>1, <1>2, <1>3, <1>4, <1>5, <1>6, <1>7, <1>8, <1>9, <1>10, <1>11, <1>12, <1>13, <1>14,
      <1>15, <1>16, <1>17

\* case CODELENS.
LEMMA CodeLenKeeps ==
    ASSUME IInv, NEW s \in LengthSyms, CodeLen(s)
    PROVE  IInv'
  <1>1. /\ s \in [k : {"len", "rep", "zero"}, n : {4, 12}, x : Nat \ {0}]
        /\ sym.k # "none" => s = sym
        /\ lens < nlen /\ have' \in Nat /\ have' <= have /\ bits' \in Nat
        /\ \/ /\ sym' = NoSym /\ pc' = "run"
              /\ \/ /\ lens + s.x <= nlen /\ lens' = lens + s.x /\ mode' = "CODELENS" /\ valid' = valid
                    /\ (bits >= s.n /\ bits' = bits - s.n) \/ (bits < s.n /\ bits' <= 7)
                 \/ mode' = "BAD" /\ valid' = "bad" /\ lens' = lens /\ bits' <= bits + 9
           \/ /\ sym' = s /\ pc' = "leave" /\ have' = 0 /\ bits' < s.n
              /\ mode' = "CODELENS" /\ valid' = valid /\ lens' = lens
    BY CodeLenDoes
  <1>2. /\ mode = "CODELENS" /\ pc = "run" /\ fast = "no"
        /\ UNCHANGED <<last, headVars, sumVars, codeVars, winVars, ncode, nlen, callVars, left, fast,
                       ret, req, hist, faults>>
    BY DEF CodeLen, Running
  <1>3. bits \in Nat /\ bits < s.n + 8 /\ bits <= 11 /\ (sym.k = "none" => bits <= 7) /\ (sym.k # "none" => bits < s.n)
    BY <1>1, <1>2, CodeBegun DEF HeldInCode, InTypes, SymType
  <1>4. (FlagsType /\ CheckType /\ HeadType /\ OutTypes /\ CountTypes /\ NoBitFaults /\ CopiesRight)'
    BY <1>1, <1>2, <1>3 DEF FlagsType, CheckType, HeadType, OutTypes, CountTypes, NoBitFaults,
      CopiesRight
  <1>5. ControlTypes'
    BY <1>1, <1>2 DEF ControlTypes, Modes
  <1>6. SymType'
    BY <1>1 DEF SymType, SymKinds, NoSym
  <1>7. InTypes'
    BY <1>1, <1>2 DEF InTypes
  <1>8. CodeTypes'
    <2>1. lens' \in Nat /\ (lens' = lens \/ lens' <= nlen)
      BY <1>1 DEF CodeTypes
    <2>2. QED
      BY <1>2, <2>1 DEF CodeTypes
  <1>9. Calling'
    BY <1>1, <1>2 DEF InCall, InTypes, Begun, NoSym, Counting
  <1>10. HeldInHeader'
    BY <1>1 DEF HeldInHeader
  <1>11. HeldInBlock'
    BY <1>1 DEF HeldInBlock
  <1>12. HeldInCode'
    <2>1. CASE sym' = NoSym /\ mode' = "CODELENS"
      <3>1. bits' <= 7
        BY <1>1, <1>3, <2>1 DEF NoSym
      <3>2. sym'.k = "none" /\ mode' \notin {"LEN_", "LEN"}
        BY <2>1 DEF NoSym
      <3>3. QED
        BY <1>1, <3>1, <3>2 DEF HeldInCode
    <2>2. CASE mode' = "BAD" /\ sym' = NoSym /\ bits' <= bits + 9
      <3>1. bits' <= 39 /\ sym'.k = "none"
        BY <1>1, <1>3, <2>2 DEF NoSym
      <3>2. QED
        BY <2>2, <3>1 DEF HeldInCode
    <2>3. CASE sym' = s /\ bits' < s.n /\ mode' = "CODELENS"
      <3>1. bits' <= 39 /\ s.k # "none"
        BY <1>1, <2>3
      <3>2. QED
        BY <1>1, <2>3, <3>1 DEF HeldInCode
    <2>4. QED
      BY <1>1, <2>1, <2>2, <2>3
  <1>13. Margins'
    BY <1>2 DEF Margins
  <1>14. Counted'
    BY <1>1, <1>2 DEF Counted, Made, HeadModes
  <1>15. Shape'
    BY <1>1, <1>2 DEF Shape
  <1>16. Content'
    BY <1>2, ContentKept DEF Base, Made, BlockModes
  <1>17. Sums'
    BY <1>1, <1>2 DEF Sums, Made, BlockModes
  <1>18. Judged'
    BY <1>1, <1>2 DEF Judged
  <1>19. Saved'
    BY <1>1, <1>2 DEF Saved, HeaderSaved, HeadModes
  <1>20. QED
    BY <1>4, <1>5, <1>6, <1>7, <1>8, <1>9, <1>10, <1>11, <1>12, <1>13, <1>14, <1>15, <1>16, <1>17,
      <1>18, <1>19

\* case CODELENS, the tables are built.
LEMMA TablesKeeps ==
    ASSUME IInv, NEW good \in BOOLEAN, Tables(good)
    PROVE  IInv'
  <1> USE DEF Tables, Running, Leave, Stay, SetBad
  <1>1. (FlagsType /\ CheckType /\ HeadType /\ SymType /\ InTypes /\ OutTypes /\ CountTypes /\ Margins /\
         NoBitFaults /\ CopiesRight)'
    BY DEF FlagsType, CheckType, HeadType, SymType, InTypes, OutTypes, CountTypes, Margins,
      NoBitFaults, CopiesRight
  <1>2. (ControlTypes /\ CodeTypes)'
    BY DEF ControlTypes, Modes, BlockModes, CodeTypes
  <1>3. Calling'
    BY DEF InCall, CodeTypes, Begun, Counting
  <1>4. Buffered'
    BY DEF HeldInCode, HeldInHeader, HeldInBlock
  <1>5. Counted'
    BY DEF Counted, Made, HeadModes
  <1>6. Shape'
    BY WindowSizes DEF Shape, NoFlags
  <1>7. Content'
    BY ContentKept DEF Base, Made, BlockModes
  <1>8. Sums'
    BY DEF Sums, Made, BlockModes
  <1>9. Judged'
    BY DEF Judged, Judge
  <1>10. Saved'
    BY DEF Saved, HeaderSaved, HeadModes
  <1>11. QED
    BY <1>1, <1>2, <1>3, <1>4, <1>5, <1>6, <1>7, <1>8, <1>9, <1>10

-----------------------------------------------------------------------------
(* Codes of a block, one at a time.                                        *)

\* cases LEN_ and LEN.
LEMMA LenKeeps ==
    ASSUME IInv, NEW s \in Symbols \cup (IF sym.k = "none" THEN {} ELSE {sym}), Len_(s)
    PROVE  IInv'
  <1>1. /\ s \in [k : {"lit", "end", "len"}, n : 1..15, x : 0..5]
        /\ sym.k # "none" => sym = s
        /\ s.n \in FirstCodes \/ sym.k # "none"
        /\ have' \in Nat /\ have' <= have /\ bits' \in Nat
        /\ \/ /\ mode' = (IF s.k = "lit" THEN "LIT" ELSE IF s.k = "end" THEN "TYPE" ELSE "LENEXT")
              /\ sym' = NoSym /\ pc' = "run" /\ extra' = (IF s.k = "len" THEN s.x ELSE extra)
              /\ (bits >= s.n /\ bits' = bits - s.n) \/ (bits < s.n /\ bits' <= 7)
           \/ /\ mode' = "LEN" /\ sym' = s /\ pc' = "leave" /\ have' = 0 /\ bits' < s.n /\ extra' = extra
    BY LenDoes
  <1>2. /\ mode \in {"LEN_", "LEN"} /\ pc = "run" /\ fast = "no"
        /\ UNCHANGED <<last, headVars, sumVars, length, offset, winVars, tabVars, callVars, left, fast,
                       ret, req, hist, valid, faults>>
    BY DEF Len_
  <1>3. s.k \in {"lit", "end", "len"} /\ s.n \in 1..15 /\ s.x \in 0..5
    BY <1>1
  <1>4. bits \in Nat /\ PrimeMax \in Nat /\ s.n \in Nat /\ (sym' = NoSym => bits' <= 7)
    <2>1. bits \in Nat /\ PrimeMax \in Nat /\ s.n \in Nat /\ sym.k # "text"
      BY <1>2, <1>3, CodeBegun, InflateAssumption DEF InTypes
    <2>2. CASE sym.k # "none"
      <3>1. bits < s.n
        BY <1>1, <1>2, <2>2 DEF HeldInCode
      <3>2. s # NoSym
        BY <1>3 DEF NoSym
      <3>3. QED
        BY <1>1, <2>1, <3>1, <3>2
    <2>3. CASE sym.k = "none"
      <3>1. bits <= 7 \/ bits + 3 <= PrimeMax
        BY <1>2, <2>3 DEF HeldInCode
      <3>2. PrimeMax <= s.n + 10
        BY <1>1, <2>3, InflateAssumption DEF FirstCodes
      <3>3. s # NoSym
        BY <1>3 DEF NoSym
      <3>4. sym' = NoSym => (bits >= s.n /\ bits' = bits - s.n) \/ bits' <= 7
        BY <1>1, <3>3
      <3>5. QED
        BY <1>1, <2>1, <3>1, <3>2, <3>4
    <2>4. QED
      BY <2>2, <2>3
  <1>5. \/ mode' \in {"LIT", "TYPE", "LENEXT"} /\ sym' = NoSym /\ pc' = "run" /\ bits' <= 7
           /\ extra' = (IF s.k = "len" THEN s.x ELSE extra) /\ (mode' = "LENEXT" => s.k = "len")
        \/ mode' = "LEN" /\ sym' = s /\ pc' = "leave" /\ have' = 0 /\ bits' < s.n /\ extra' = extra
    BY <1>1, <1>3, <1>4
  <1>6. have' \in Nat /\ have' <= have /\ bits' \in Nat
    BY <1>1
  <1>7. (FlagsType /\ CheckType /\ HeadType /\ OutTypes /\ CountTypes /\ NoBitFaults /\ CopiesRight)'
    BY <1>2, <1>3, <1>5, <1>6 DEF FlagsType, CheckType, HeadType, OutTypes, CountTypes, NoBitFaults,
      CopiesRight
  <1>8. ControlTypes'
    BY <1>2, <1>5 DEF ControlTypes, Modes, BlockModes
  <1>9. InTypes'
    BY <1>2, <1>6 DEF InTypes
  <1>10. SymType'
    BY <1>1 DEF SymType, SymKinds, NoSym
  <1>11. CodeTypes'
    BY <1>2, <1>3, <1>5 DEF CodeTypes
  <1>12. Begun'
    BY <1>3, <1>5 DEF Begun, NoSym
  <1>13. InCall'
    <2>1. have' <= in
      BY <1>2, <1>6 DEF InCall, InTypes
    <2>2. QED
      BY <1>2, <1>5, <2>1 DEF InCall
  <1>14. Counting'
    BY <1>3, <1>5 DEF Counting
  <1>15. HeldInCode'
    <2>1. CASE sym' = s /\ mode' = "LEN" /\ bits' < s.n
      <3>1. bits' <= 39 /\ s.k # "none"
        BY <1>3, <1>6, <2>1
      <3>2. QED
        BY <2>1, <3>1 DEF HeldInCode
    <2>2. CASE sym' = NoSym /\ mode' \in {"LIT", "TYPE", "LENEXT"} /\ bits' <= 7
      <3>1. bits' <= 39 /\ sym'.k = "none"
        BY <1>6, <2>2 DEF NoSym
      <3>2. QED
        BY <2>2, <3>1 DEF HeldInCode
    <2>3. QED
      BY <1>5, <2>1, <2>2
  <1>16. HeldInHeader'
    BY <1>5 DEF HeldInHeader
  <1>17. HeldInBlock'
    <2>1. CASE mode' = "LEN"
      BY <2>1 DEF HeldInBlock
    <2>2. CASE mode' \in {"LIT", "TYPE", "LENEXT"} /\ bits' <= 7
      <3>1. bits' <= 16
        BY <1>6, <2>2
      <3>2. QED
        BY <2>2, <3>1 DEF HeldInBlock
    <2>3. QED
      BY <1>5, <2>1, <2>2
  <1>18. Margins'
    BY <1>2 DEF Margins
  <1>19. Counted'
    BY <1>2, <1>5 DEF Counted, Made, HeadModes
  <1>20. Shape'
    BY <1>2, <1>5 DEF Shape
  <1>21. Content'
    BY <1>2, ContentKept DEF Base, Made, BlockModes
  <1>22. Sums'
    BY <1>2, <1>5 DEF Sums, Made, BlockModes
  <1>23. Judged'
    BY <1>2, <1>5 DEF Judged
  <1>24. Saved'
    BY <1>2, <1>5 DEF Saved, HeaderSaved, HeadModes
  <1>25. QED
    BY <1>7, <1>8, <1>9, <1>10, <1>11, <1>12, <1>13, <1>14, <1>15, <1>16, <1>17, <1>18, <1>19,
      <1>20, <1>21, <1>22, <1>23, <1>24

\* case LEN, an invalid code.
LEMMA LenBadKeeps ==
    ASSUME IInv, NEW n \in EndCodes, LenBad(n)
    PROVE  IInv'
  <1> USE DEF LenBad, SetBad
  <1>1. (FlagsType /\ CheckType /\ HeadType /\ SymType /\ OutTypes /\ CountTypes /\ CodeTypes /\
         NoBitFaults /\ CopiesRight)'
    BY DEF FlagsType, CheckType, HeadType, SymType, OutTypes, CountTypes, CodeTypes, NoBitFaults,
      CopiesRight
  <1>2. ControlTypes'
    BY DEF ControlTypes, Modes
  <1>3. InTypes'
    BY InflateAssumption, TakeIs DEF InTypes, CodeTypes
  <1>4. InCall'
    BY TakeIs, InflateAssumption DEF InCall, InTypes
  <1>5. Begun'
    BY DEF Begun
  <1>6. Counting'
    BY TakeIs DEF Counting, CodeTypes
  <1>7. Buffered'
    BY InflateAssumption, TakeIs DEF HeldInCode, InTypes, HeldInHeader, HeldInBlock
  <1>8. Margins'
    BY TakeIs DEF Margins, InCall
  <1>9. Counted'
    BY DEF Counted, Made, HeadModes
  <1>10. Shape'
    BY DEF Shape
  <1>11. Content'
    BY ContentKept DEF Base, Made, BlockModes
  <1>12. Sums'
    BY DEF Sums, BlockModes
  <1>13. Judged'
    BY TakeIs DEF Judged, Judge
  <1>14. Saved'
    BY DEF Saved, HeaderSaved, HeadModes
  <1>15. QED
    BY <1>1, <1>2, <1>3, <1>4, <1>5, <1>6, <1>7, <1>8, <1>9, <1>10, <1>11, <1>12, <1>13, <1>14

\* case LENEXT.
LEMMA LenExtKeeps ==
    ASSUME IInv, NEW n \in Lengths, LenExt(n)
    PROVE  IInv'
  <1> USE DEF LenExt, Running
  <1>1. (FlagsType /\ CheckType /\ HeadType /\ SymType /\ OutTypes /\ CountTypes /\ NoBitFaults /\
         CopiesRight)'
    BY DEF FlagsType, CheckType, HeadType, SymType, OutTypes, CountTypes, NoBitFaults, CopiesRight
  <1>2. ControlTypes'
    BY DEF ControlTypes, Modes, BlockModes
  <1>3. InTypes'
    BY TakeIs DEF InTypes, CodeTypes
  <1>4. CodeTypes'
    BY InflateAssumption DEF CodeTypes
  <1>5. Calling'
    BY TakeIs DEF InCall, InTypes, CodeTypes, Begun, Counting
  <1>6. HeldInCode'
    BY TakeIs, CodeBegun DEF HeldInCode, InTypes, HeldInBlock, CodeTypes
  <1>7. HeldInHeader'
    BY DEF HeldInHeader
  <1>8. HeldInBlock'
    BY DEF HeldInBlock
  <1>9. Margins'
    BY TakeIs DEF Margins, InCall
  <1>10. Counted'
    BY DEF Counted, Made, HeadModes
  <1>11. Shape'
    BY DEF Shape
  <1>12. Content'
    BY ContentKept DEF Base, Made, BlockModes
  <1>13. Sums'
    BY DEF Sums, Made, BlockModes
  <1>14. Judged'
    BY TakeIs DEF Judged, Judge
  <1>15. Saved'
    BY DEF Saved, HeaderSaved, HeadModes
  <1>16. QED
    BY <1>1, <1>2, <1>3, <1>4, <1>5, <1>6, <1>7, <1>8, <1>9, <1>10, <1>11, <1>12, <1>13, <1>14,
      <1>15

\* case DIST.
LEMMA DistKeeps ==
    ASSUME IInv, NEW c \in DistCodes, Dist(c)
    PROVE  IInv'
  <1>1. /\ c[1] \in 1..15 /\ c[2] \in 0..13
        /\ sym.k # "none" => sym.n = c[1] /\ sym.x = c[2]
        /\ have' \in Nat /\ have' <= have /\ bits' \in Nat
        /\ \/ /\ mode' = "DISTEXT" /\ sym' = NoSym /\ pc' = "run" /\ extra' = c[2]
              /\ (bits >= c[1] /\ bits' = bits - c[1]) \/ (bits < c[1] /\ bits' <= 7)
           \/ /\ mode' = "DIST" /\ sym' = [k |-> "dist", n |-> c[1], x |-> c[2]] /\ pc' = "leave"
              /\ have' = 0 /\ bits' < c[1] /\ extra' = extra
    BY DistDoes
  <1>2. /\ mode = "DIST" /\ pc = "run" /\ fast = "no"
        /\ UNCHANGED <<last, headVars, sumVars, length, offset, winVars, tabVars, callVars, left,
                       fast, ret, req, hist, valid, faults>>
    BY DEF Dist, Running
  <1>3. PICK k \in 1..15 : k = c[1]
    BY <1>1
  <1>4. bits \in Nat /\ (bits <= 7 \/ bits < k)
    <2>1. sym.k # "text" /\ bits \in Nat
      BY <1>2, CodeBegun DEF InTypes
    <2>2. QED
      BY <1>1, <1>2, <1>3, <2>1 DEF HeldInCode
  <1>5. \/ mode' = "DISTEXT" /\ sym' = NoSym /\ pc' = "run" /\ extra' = c[2] /\ bits' <= 7
        \/ /\ mode' = "DIST" /\ sym' = [k |-> "dist", n |-> k, x |-> c[2]] /\ pc' = "leave"
           /\ have' = 0 /\ bits' < k /\ extra' = extra
    BY <1>1, <1>3, <1>4
  <1>6. c[2] \in 0..13 /\ have' \in Nat /\ have' <= have /\ bits' \in Nat
    BY <1>1
  <1>7. (FlagsType /\ CheckType /\ HeadType /\ OutTypes /\ CountTypes /\ NoBitFaults /\ CopiesRight)'
    BY <1>2, <1>3, <1>5, <1>6 DEF FlagsType, CheckType, HeadType, OutTypes, CountTypes, NoBitFaults,
      CopiesRight
  <1>8. ControlTypes'
    BY <1>2, <1>5 DEF ControlTypes, Modes, BlockModes
  <1>9. SymType'
    BY <1>5, InflateAssumption DEF SymType, SymKinds, NoSym
  <1>10. InTypes'
    BY <1>2, <1>6 DEF InTypes
  <1>11. CodeTypes'
    BY <1>2, <1>5, InflateAssumption DEF CodeTypes
  <1>12. Calling'
    BY <1>2, <1>5, <1>6 DEF InCall, InTypes, Begun, NoSym, Counting
  <1>13. HeldInHeader'
    BY <1>5 DEF HeldInHeader
  <1>14. HeldInBlock'
    BY <1>5 DEF HeldInBlock
  <1>15. HeldInCode'
    <2>1. CASE sym' = NoSym /\ mode' = "DISTEXT" /\ bits' <= 7
      <3>1. bits' <= 39 /\ sym'.k = "none"
        BY <1>6, <2>1 DEF NoSym
      <3>2. QED
        BY <2>1, <3>1 DEF HeldInCode
    <2>2. CASE sym' = [k |-> "dist", n |-> k, x |-> c[2]] /\ mode' = "DIST" /\ bits' < k
      <3>1. bits' <= 39 /\ sym'.k = "dist" /\ sym'.n = k
        BY <1>3, <1>6, <2>2
      <3>2. QED
        BY <2>2, <3>1 DEF HeldInCode
    <2>3. QED
      BY <1>5, <2>1, <2>2
  <1>16. Margins'
    BY <1>2 DEF Margins
  <1>17. Counted'
    BY <1>2, <1>5 DEF Counted, Made, HeadModes
  <1>18. Shape'
    BY <1>2, <1>5 DEF Shape
  <1>19. Content'
    BY <1>2, ContentKept DEF Base, Made, BlockModes
  <1>20. Sums'
    BY <1>2, <1>5 DEF Sums, Made, BlockModes
  <1>21. Judged'
    BY <1>2, <1>5 DEF Judged
  <1>22. Saved'
    BY <1>2, <1>5 DEF Saved, HeaderSaved, HeadModes
  <1>23. QED
    BY <1>7, <1>8, <1>9, <1>10, <1>11, <1>12, <1>13, <1>14, <1>15, <1>16, <1>17, <1>18, <1>19,
      <1>20, <1>21, <1>22

\* case DIST, an invalid code.
LEMMA DistBadKeeps ==
    ASSUME IInv, NEW n \in EndCodes, DistBad(n)
    PROVE  IInv'
  <1> USE DEF DistBad, Running, SetBad
  <1>1. (FlagsType /\ CheckType /\ HeadType /\ SymType /\ OutTypes /\ CountTypes /\ CodeTypes /\
         NoBitFaults /\ CopiesRight)'
    BY DEF FlagsType, CheckType, HeadType, SymType, OutTypes, CountTypes, CodeTypes, NoBitFaults,
      CopiesRight
  <1>2. ControlTypes'
    BY DEF ControlTypes, Modes
  <1>3. InTypes'
    BY InflateAssumption, TakeIs DEF InTypes, CodeTypes
  <1>4. InCall'
    BY TakeIs, InflateAssumption DEF InCall, InTypes
  <1>5. Begun'
    BY DEF Begun
  <1>6. Counting'
    BY TakeIs DEF Counting, CodeTypes
  <1>7. Buffered'
    BY InflateAssumption, TakeIs DEF HeldInCode, InTypes, HeldInHeader, HeldInBlock
  <1>8. Margins'
    BY TakeIs DEF Margins, InCall
  <1>9. Counted'
    BY DEF Counted, Made, HeadModes
  <1>10. Shape'
    BY DEF Shape
  <1>11. Content'
    BY ContentKept DEF Base, Made, BlockModes
  <1>12. Sums'
    BY DEF Sums, BlockModes
  <1>13. Judged'
    BY TakeIs DEF Judged, Judge
  <1>14. Saved'
    BY DEF Saved, HeaderSaved, HeadModes
  <1>15. QED
    BY <1>1, <1>2, <1>3, <1>4, <1>5, <1>6, <1>7, <1>8, <1>9, <1>10, <1>11, <1>12, <1>13, <1>14

\* case DISTEXT: the distance is judged.
LEMMA DistExtKeeps ==
    ASSUME IInv, NEW d \in Offsets, DistExt(d)
    PROVE  IInv'
  <1> USE DEF DistExt, Running, Judge
  <1>1. (FlagsType /\ CheckType /\ HeadType /\ SymType /\ OutTypes /\ CountTypes /\ NoBitFaults /\
         CopiesRight)'
    BY DEF FlagsType, CheckType, HeadType, SymType, OutTypes, CountTypes, NoBitFaults, CopiesRight
  <1>2. (ControlTypes /\ InTypes /\ CodeTypes)'
    BY InflateAssumption, TakeIs DEF ControlTypes, Modes, BlockModes, InTypes, CodeTypes
  <1>3. Calling'
    BY TakeIs DEF InCall, InTypes, CodeTypes, Begun, Counting
  <1>4. HeldInCode'
    BY TakeIs, CodeBegun DEF HeldInCode, InTypes, CodeTypes
  <1>5. HeldInHeader'
    BY DEF HeldInHeader
  <1>6. HeldInBlock'
    BY TakeIs DEF HeldInBlock, InTypes, CodeTypes
  <1>7. Margins'
    BY TakeIs DEF Margins, InCall
  <1>8. Counted'
    BY DEF Counted, Made, HeadModes
  <1>9. Shape'
    BY DEF Shape
  <1>10. Content'
    BY ContentKept DEF Base, Made, BlockModes
  <1>11. Sums'
    BY DEF Sums, Made, BlockModes
  <1>12. Judged'
    BY InflateAssumption, WindowSizes DEF Judged, CountTypes, Shape, ControlTypes
  <1>13. Saved'
    BY DEF Saved, HeaderSaved, HeadModes
  <1>14. QED
    BY <1>1, <1>2, <1>3, <1>4, <1>5, <1>6, <1>7, <1>8, <1>9, <1>10, <1>11, <1>12, <1>13

\* case MATCH: a piece of the match, from the window or the output; it is refused only
\* if it reaches beyond both.
LEMMA MatchKeeps ==
    ASSUME IInv, Match
    PROVE  IInv'
  <1> DEFINE m == left - left'
             d == offset - Made
  <1>1. /\ mode = "MATCH" /\ pc = "run" /\ fast = "no"
        /\ UNCHANGED <<last, headVars, check, total, extra, winVars, bits, tabVars, callVars,
                       have, fast, ret, sym, req>>
    BY DEF Match, Running
  <1>2. \/ left = 0 /\ pc' = "leave" /\ UNCHANGED <<mode, length, offset, left, hist, put, valid, faults>>
        \/ /\ d > 0 /\ d > whave /\ mode' = "BAD" /\ valid' = valid /\ pc' = "run"
           /\ UNCHANGED <<length, offset, left, hist, put, faults>>
        \/ /\ pc' = "run" /\ valid' = valid /\ m \in Nat
           /\ m <= length /\ m <= left /\ (d > 0 => d <= whave /\ m <= MatchFrom(d).n)
           /\ left' = left - m /\ hist' = hist + m /\ put' = put + m /\ length' = length - m
           /\ mode' = (IF length = m THEN "LEN" ELSE "MATCH")
           /\ offset' = (IF length = m THEN 0 ELSE offset)
           /\ faults' = faults \cup Fault(MatchMisreads(m), "misread")
    BY MatchDoes
  <1>3. PICK j \in Nat :
          /\ j <= length /\ j <= left
          /\ left' = left - j /\ hist' = hist + j /\ put' = put + j /\ length' = length - j
    <2> HIDE DEF m, d
    <2>1. length \in Nat /\ left \in Nat /\ hist \in Nat /\ put \in Nat
      BY DEF CodeTypes, OutTypes, CountTypes
    <2>2. QED
      BY <1>2, <2>1
  <1>4. sym.k = "none" /\ Made \in Nat /\ Made' = Made + j /\ Base \in Nat /\ Base' = Base
    BY <1>1, <1>3, CodeBegun DEF Made, Base, OutTypes, CountTypes, Counted
  <1>5. mode' \in {"MATCH", "BAD", "LEN"}
    BY <1>1, <1>2
  <1>6. MatchMisreads(m) = FALSE \/ ~(d > 0 => d <= whave /\ m <= MatchFrom(d).n) \/ m \notin Nat
    <2>1. SUFFICES ASSUME m \in Nat, d > 0, d <= whave, m <= MatchFrom(d).n
                   PROVE  ~Misread(MatchFrom(d).from, hist - offset, m)
      BY DEF MatchMisreads
    <2>2. d \in Nat /\ hist - offset = Base - d
      BY <1>4, <2>1 DEF Base, CountTypes, CodeTypes
    <2>3. Holds(window, wsize, wnext, whave, Base)
      BY <1>1 DEF Content, BlockModes
    <2> HIDE DEF m, d
    <2>4. ASSUME NEW i \in 0..(m - 1)
          PROVE  MatchFrom(d).from + i \in DOMAIN window /\ window[MatchFrom(d).from + i] = (Base - d) + i
      <3>1. d \in Int /\ i \in Nat /\ i < MatchFrom(d).n /\ Base \in Int
        <4>1. MatchFrom(d).n \in Int
          BY <2>2 DEF MatchFrom, Shape
        <4>2. QED
          BY <1>4, <2>1, <2>2, <2>4, <4>1
      <3>2. QED
        BY <2>1, <2>2, <2>3, <3>1, MatchReads
    <2>5. QED
      BY <2>2, <2>4 DEF Misread
  <1>7. faults' = faults
    BY <1>2, <1>6 DEF Fault
  <1>8. /\ valid' = valid /\ offset' \in {0, offset} /\ pc' \in {"run", "leave"}
        /\ pc' = "leave" => left' = 0
    <2> HIDE DEF m, d
    <2>1. QED
      BY <1>2
  <1> HIDE DEF m, d
  <1>9. (FlagsType /\ CheckType /\ HeadType /\ SymType /\ InTypes)'
    BY <1>1, <1>3, <1>4, <1>5, <1>7 DEF FlagsType, CheckType, HeadType, SymType, InTypes
  <1>10. OutTypes'
    BY <1>1, <1>3 DEF OutTypes
  <1>11. CountTypes'
    BY <1>1, <1>3 DEF CountTypes
  <1>12. ControlTypes'
    BY <1>1, <1>5, <1>8 DEF ControlTypes, Modes, BlockModes
  <1>13. CodeTypes'
    BY <1>1, <1>3, <1>8 DEF CodeTypes
  <1>14. InCall'
    <2>1. pc' = "run" \/ (pc' = "leave" /\ left' = 0)
      BY <1>8
    <2>2. QED
      BY <1>1, <1>5, <2>1 DEF InCall
  <1>15. Begun'
    BY <1>1, <1>4, <1>5 DEF Begun
  <1>16. Counting'
    BY <1>1, <1>5 DEF Counting
  <1>17. Buffered'
    BY <1>1, <1>5 DEF HeldInCode, HeldInHeader, HeldInBlock
  <1>18. Margins'
    BY <1>1 DEF Margins
  <1>19. NoBitFaults'
    BY <1>7 DEF NoBitFaults
  <1>20. CopiesRight'
    BY <1>7 DEF CopiesRight
  <1>21. Counted'
    BY <1>1, <1>3, <1>4, <1>5 DEF Counted, CountTypes, HeadModes
  <1>22. Shape'
    BY <1>1, <1>5 DEF Shape
  <1>23. Content'
    BY <1>1, <1>4, ContentKept DEF BlockModes
  <1>24. Sums'
    <2>1. put' - Made' = put - Made
      BY <1>3, <1>4 DEF CountTypes
    <2>2. QED
      BY <1>1, <1>5, <2>1 DEF Sums, BlockModes
  <1>25. Judged'
    <2>1. wbits \in 0..MaxWBits /\ WSizeNow = WindowOf[wbits] /\ WindowOf[wbits] \in Nat
      BY <1>1, WindowSizes, InflateAssumption DEF Shape, WSizeNow
    <2>2. whave = Min2(Base, WSizeNow) /\ offset \in Nat /\ hist \in Nat /\ hist = Base + Made
      BY <1>1, <1>4 DEF Content, BlockModes, CodeTypes, CountTypes, Base
    <2>3. offset <= hist /\ offset <= WindowOf[wbits] => ~(d > 0 /\ d > whave)
      BY <1>4, <2>1, <2>2 DEF Min2, d
    <2>4. offset > hist => d > 0 /\ d > whave
      BY <1>4, <2>1, <2>2 DEF Min2, d
    <2>5. CASE UNCHANGED <<mode, offset, hist, valid>>
      BY <1>1, <1>7, <2>5 DEF Judged
    <2>6. CASE d > 0 /\ d > whave /\ mode' = "BAD" /\ valid' = valid
      BY <1>1, <1>7, <2>3, <2>6 DEF Judged
    <2>7. CASE /\ (d > 0 => d <= whave) /\ valid' = valid
               /\ mode' = (IF length = m THEN "LEN" ELSE "MATCH")
               /\ offset' = (IF length = m THEN 0 ELSE offset)
      <3>1. ~(offset > hist)
        <4>1. d > whave => ~(d <= whave)
          BY <1>4, <2>1, <2>2 DEF Min2, d
        <4>2. QED
          BY <2>4, <2>7, <4>1
      <3>2. hist' >= hist
        BY <1>3, <2>2
      <3>3. valid = "bad" => "check" \notin wrap
        BY <1>1, <3>1 DEF Judged
      <3>4. CASE mode' = "LEN"
        BY <1>1, <1>7, <2>7, <3>3, <3>4 DEF Judged
      <3>5. CASE mode' = "MATCH" /\ offset' = offset
        <4>1. valid = "ok" => offset <= hist' /\ offset <= WindowOf[wbits]
          BY <1>1, <1>3, <2>2 DEF Judged
        <4>2. QED
          BY <1>1, <1>7, <2>7, <3>3, <3>5, <4>1 DEF Judged, ControlTypes
      <3>6. QED
        BY <2>7, <3>4, <3>5
    <2>8. QED
      BY <1>2, <2>5, <2>6, <2>7
  <1>26. Saved'
    BY <1>1, <1>5 DEF Saved, HeaderSaved, HeadModes
  <1>27. QED
    BY <1>9, <1>10, <1>11, <1>12, <1>13, <1>14, <1>15, <1>16, <1>17, <1>18, <1>19, <1>20, <1>21,
      <1>22, <1>23, <1>24, <1>25, <1>26

\* case LIT.
LEMMA LitKeeps ==
    ASSUME IInv, Lit
    PROVE  IInv'
  <1> USE DEF Lit, Running, Leave, Stay, PutBytes
  <1>1. (FlagsType /\ CheckType /\ HeadType /\ SymType /\ InTypes /\ CodeTypes /\ NoBitFaults /\
         CopiesRight)'
    BY DEF FlagsType, CheckType, HeadType, SymType, InTypes, CodeTypes, NoBitFaults, CopiesRight
  <1>2. ControlTypes'
    BY DEF ControlTypes, Modes, HeadModes, BlockModes
  <1>3. OutTypes'
    BY DEF OutTypes, CodeTypes
  <1>4. CountTypes'
    BY DEF CountTypes, CodeTypes, InTypes
  <1>5. InCall'
    BY DEF InCall
  <1>6. Begun'
    BY CodeBegun DEF Begun
  <1>7. Counting'
    BY DEF Counting, CodeTypes
  <1>8. Buffered'
    BY DEF HeldInCode, HeldInHeader, HeldInBlock
  <1>9. Margins'
    BY DEF Margins, InCall
  <1>10. Counted'
    BY DEF Counted, Made, HeadModes, CountTypes, OutTypes
  <1>11. Shape'
    BY WindowSizes DEF Shape, NoFlags
  <1>12. Content'
    BY ContentKept DEF Base, Made, BlockModes, OutTypes, CountTypes
  <1>13. Sums'
    BY DEF Sums, Made, BlockModes, Counted, OutTypes
  <1>14. Judged'
    BY DEF Judged, Judge
  <1>15. Saved'
    BY DEF Saved, HeaderSaved, HeadModes
  <1>16. QED
    BY <1>1, <1>2, <1>3, <1>4, <1>5, <1>6, <1>7, <1>8, <1>9, <1>10, <1>11, <1>12, <1>13, <1>14,
      <1>15

-----------------------------------------------------------------------------
(* inflate_fast.                                                           *)

\* case LEN, the call of inflate_fast.
LEMMA FastEnterKeeps ==
    ASSUME IInv, FastEnter
    PROVE  IInv'
  <1>1. /\ mode' = "LEN" /\ fast' \in {"full", "safe"} /\ bits' \in 56..63 /\ have' \in Nat
        /\ have' >= 8 /\ left' >= FastRoom(fast') /\ faults' = faults
        /\ IF sym.k = "none" THEN \/ 8 * have' + bits' <= 8 * in + 7
                                  \/ 8 * have' + bits' + 3 <= 8 * in + PrimeMax
           ELSE 8 * have' + bits' < 8 * in + sym.n
    BY FastEnterStep
  <1>2. /\ pc = "run" /\ fast = "no" /\ mode \in {"LEN_", "LEN"}
        /\ UNCHANGED <<last, headVars, sumVars, codeVars, winVars, tabVars, callVars, left, ret, pc,
                       sym, req, hist, valid>>
    BY DEF FastEnter
  <1>3. Types'
    <2>1. ControlTypes'
      BY <1>1, <1>2 DEF ControlTypes, Modes, BlockModes
    <2>2. InTypes'
      BY <1>1, <1>2 DEF InTypes
    <2>3. QED
      BY <1>2, <2>1, <2>2 DEF FlagsType, CheckType, HeadType, SymType, OutTypes, CountTypes,
        CodeTypes
  <1>4. Calling'
    <2>1. mode = "LEN_" => sym.k = "none"
      BY CodeBegun
    <2>2. Begun'
      BY <1>1, <1>2, <2>1 DEF Begun
    <2>3. QED
      BY <1>1, <1>2, <2>2 DEF InCall, Counting
  <1>5. Buffered'
    BY <1>1 DEF HeldInCode, HeldInHeader, HeldInBlock
  <1>6. Margins'
    <2>1. /\ bits' \in Root..63 /\ bits' >= 56 /\ sym' = sym /\ in' = in
      BY <1>1, <1>2, FastAssumption
    <2>2. QED
      BY <1>1, <2>1 DEF Margins
  <1>7. NoBitFaults' /\ CopiesRight'
    BY <1>1 DEF NoBitFaults, CopiesRight
  <1>8. Counted'
    BY <1>1, <1>2 DEF Counted, Made, HeadModes
  <1>9. Shape'
    BY <1>1, <1>2 DEF Shape
  <1>10. Content'
    BY <1>2, ContentKept DEF BlockModes, Base, Made
  <1>11. Sums'
    BY <1>1, <1>2 DEF Sums, BlockModes, Made
  <1>12. Judged'
    BY <1>1, <1>2 DEF Judged
  <1>13. Saved'
    BY <1>1, <1>2 DEF Saved, HeaderSaved, HeadModes
  <1>14. QED
    BY <1>3, <1>4, <1>5, <1>6, <1>7, <1>8, <1>9, <1>10, <1>11, <1>12, <1>13

\* An iteration of inflate_fast that judged the stream rightly and read the window
\* rightly keeps the invariant.
LEMMA FastKeeps ==
    ASSUME IInv, fast # "no", NEW n, FastStep(n), mode' \in {"LEN", "TYPE", "BAD", "MATCH"},
           length' \in Nat, offset' \in Nat, valid' \in {"ok", "open", "bad"}, faults' = faults,
           UNCHANGED <<last, headVars, check, total, extra, winVars, tabVars, callVars, ret, pc, req>>,
           Judged'
    PROVE  IInv'
  <1>1. mode = "LEN" /\ pc = "run" /\ fast \in {"full", "safe"} /\ Root \in 1..13
    BY FastAssumption DEF InCall, ControlTypes
  <1>2. /\ n \in 0..left /\ left' = left - n /\ hist' = hist + n /\ put' = put + n
        /\ bits' \in Nat /\ have' \in Nat /\ 8 * have' + bits' <= 8 * in + 7
        /\ sym' = NoSym
    BY DEF FastStep
  <1>3. \/ fast' = "no" /\ bits' <= 7
        \/ /\ fast' = fast /\ mode' = "LEN" /\ bits' \in Root..63 /\ have' >= INFLATE_FAST_MIN_HAVE
           /\ left' >= FastRoom(fast)
    BY DEF FastStep
  <1>4. left \in Nat /\ left <= out /\ out \in Nat /\ hist \in Nat /\ put \in Nat /\ total \in Nat
    BY DEF OutTypes, CountTypes
  <1>5. n \in Nat /\ left' \in 0..out /\ Made' = Made + n /\ Base' = Base /\ Made \in Nat
    BY <1>2, <1>4 DEF Made, Base
  <1>6. have' <= in
    <2>1. \A h, b, i \in Nat : 8 * h + b <= 8 * i + 7 => h <= i
      OBVIOUS
    <2>2. in \in Nat /\ have' \in Nat /\ bits' \in Nat
      BY <1>2 DEF InTypes
    <2>3. QED
      BY <1>2, <2>1, <2>2
  <1>7. (ControlTypes /\ RecordTypes)'
    BY <1>2, <1>3 DEF ControlTypes, FlagsType, CheckType, HeadType, SymType, SymKinds, NoSym, Modes,
      BlockModes
  <1>8. NumberTypes'
    BY <1>2 DEF InTypes, OutTypes, CountTypes, CodeTypes
  <1>9. Calling'
    <2>1. InCall'
      BY <1>1, <1>3, <1>6 DEF InCall
    <2>2. (Begun /\ Counting)'
      BY <1>2 DEF Begun, Counting, NoSym
    <2>3. QED
      BY <2>1, <2>2
  <1>10. Buffered'
    <2>1. sym'.k = "none"
      BY <1>2 DEF NoSym
    <2>2. CASE fast' = "no" /\ bits' <= 7
      BY <1>2, <2>1, <2>2 DEF HeldInCode, HeldInHeader, HeldInBlock
    <2>3. CASE fast' = fast /\ mode' = "LEN"
      BY <2>3 DEF HeldInCode, HeldInHeader, HeldInBlock
    <2>4. QED
      BY <1>3, <2>2, <2>3
  <1>11. Margins'
    <2>1. CASE fast' = "no"
      BY <2>1 DEF Margins
    <2>2. CASE fast' # "no"
      <3>1. /\ fast' = fast /\ bits' \in Root..63 /\ have' >= INFLATE_FAST_MIN_HAVE
            /\ left' >= FastRoom(fast')
        BY <1>3, <2>2
      <3>2. sym'.k = "none" /\ in' = in
        BY <1>2 DEF NoSym
      <3>3. QED
        BY <1>2, <3>1, <3>2 DEF Margins
    <2>3. QED
      BY <2>1, <2>2
  <1>12. NoBitFaults' /\ CopiesRight'
    BY DEF NoBitFaults, CopiesRight
  <1>13. Counted'
    BY <1>2, <1>4, <1>5 DEF Counted, HeadModes
  <1>14. Shape'
    BY <1>1 DEF Shape
  <1>15. Content'
    BY <1>1, <1>5, ContentKept DEF BlockModes
  <1>16. Sums'
    <2>1. put' - Made' = put - Made
      BY <1>2, <1>4, <1>5
    <2>2. QED
      BY <1>1, <2>1 DEF Sums, BlockModes
  <1>17. Saved'
    BY <1>1 DEF Saved, HeaderSaved, HeadModes
  <1>18. QED
    BY <1>7, <1>8, <1>9, <1>10, <1>11, <1>12, <1>13, <1>14, <1>15, <1>16, <1>17

\* case LEN, an iteration of literals in inflate_fast.
LEMMA FastLitsKeeps ==
    ASSUME IInv, NEW c \in LitRuns(LitCodes), FastLits(c)
    PROVE  IInv'
  <1>1. fast # "no" /\ Iterating
    BY DEF FastLits, Iterates, Iterating, ControlTypes
  <1>2. FastStep(Len(c)) /\ mode' = "LEN" /\ faults' = faults /\ valid' = valid
    BY <1>1, FastLitsStep
  <1>3. UNCHANGED <<last, headVars, check, total, length, offset, extra, winVars, tabVars, callVars,
                    ret, pc, req>>
    BY DEF FastLits
  <1>4. mode = "LEN" /\ length' \in Nat /\ offset' \in Nat /\ valid' \in {"ok", "open", "bad"}
    BY <1>1, <1>2, <1>3 DEF InCall, CodeTypes, ControlTypes
  <1>5. Judged'
    BY <1>2, <1>3, <1>4 DEF Judged
  <1>6. QED
    BY <1>1, <1>2, <1>3, <1>4, <1>5, FastKeeps

\* An iteration that ends in an end-of-block or an invalid code.
LEMMA FastEndKeeps ==
    ASSUME IInv, NEW c \in LitRuns(LitCodes), NEW n \in EndCodes, NEW good \in BOOLEAN,
           FastEnd(c, n, good)
    PROVE  IInv'
  <1>1. fast # "no" /\ Iterating
    BY DEF FastEnd, Iterates, Iterating, ControlTypes
  <1>2. /\ FastStep(Len(c)) /\ faults' = faults
        /\ mode' = (IF good THEN "TYPE" ELSE "BAD")
        /\ valid' = (IF good THEN valid ELSE "bad")
    BY <1>1, FastEndStep
  <1>3. UNCHANGED <<last, headVars, check, total, length, offset, extra, winVars, tabVars, callVars,
                    ret, pc, req>>
    BY DEF FastEnd
  <1>4. mode = "LEN" /\ length' \in Nat /\ offset' \in Nat /\ valid' \in {"ok", "open", "bad"}
    BY <1>1, <1>2, <1>3 DEF InCall, CodeTypes, ControlTypes
  <1>5. Judged'
    BY <1>2, <1>3, <1>4 DEF Judged
  <1>6. mode' \in {"LEN", "TYPE", "BAD", "MATCH"}
    BY <1>2
  <1>7. QED
    BY <1>1, <1>2, <1>3, <1>4, <1>5, <1>6, FastKeeps

\* An iteration that ends in an invalid distance code.
LEMMA FastDistBadKeeps ==
    ASSUME IInv, NEW c \in LitRuns(LitCodes), NEW l \in LenCodes, NEW n \in EndCodes,
           FastDistBad(c, l, n)
    PROVE  IInv'
  <1>1. fast # "no" /\ Iterating
    BY DEF FastDistBad, Iterates, Iterating, ControlTypes
  <1>2. FastStep(Len(c)) /\ faults' = faults /\ mode' = "BAD" /\ valid' = "bad"
    BY <1>1, FastDistBadStep
  <1>3. UNCHANGED <<last, headVars, check, total, length, offset, extra, winVars, tabVars, callVars,
                    ret, pc, req>>
    BY DEF FastDistBad
  <1>4. length' \in Nat /\ offset' \in Nat
    BY <1>3 DEF CodeTypes
  <1>5. Judged'
    BY <1>2, <1>3 DEF Judged
  <1>6. QED
    BY <1>1, <1>2, <1>3, <1>4, <1>5, FastKeeps

\* An iteration that ends in a match: every byte it takes from the window is the byte
\* that far back in the history, and it is refused only if it reaches beyond both.
LEMMA FastMatchKeeps ==
    ASSUME IInv, NEW c \in LitRuns(LitCodes), NEW l \in LenCodes, NEW n \in Lengths,
           NEW e \in DistCodes, NEW d \in Offsets, FastMatch(c, l, n, e, d)
    PROVE  IInv'
  <1> DEFINE m == Copied(c, n, d)
             op == BackInWindow(c, d)
  <1>1. fast # "no" /\ Iterating
    BY DEF FastMatch, Iterates, Iterating, ControlTypes
  <1>2. /\ FastStep(Len(c) + m)
        /\ mode' = (IF TooLong(c, n) THEN "MATCH" ELSE IF TooFar(c, d) THEN "BAD" ELSE "LEN")
        /\ length' = (IF TooLong(c, n) THEN n ELSE length)
        /\ offset' = (IF TooLong(c, n) THEN d ELSE offset)
        /\ valid' = Judge(d, hist + Len(c))
        /\ faults' = faults \cup Fault(WrongCopy(c, n, d), "misread")
    BY <1>1, FastMatchStep
  <1>3. UNCHANGED <<last, headVars, check, total, extra, winVars, tabVars, callVars, ret, pc, req>>
    BY DEF FastMatch
  <1>4. mode = "LEN" /\ n \in Nat /\ d \in Nat /\ d > 0
    BY <1>1, InflateAssumption, FastAssumption DEF InCall
  <1>5. PICK k \in 0..3 : Len(c) = k /\ k <= left
    BY <1>1, FastTopFits
  <1>6. /\ left \in Nat /\ out \in Nat /\ left <= out /\ hist \in Nat /\ Base \in Nat
        /\ hist = Base + (out - left)
    BY DEF OutTypes, CountTypes, Base, Made, Counted
  <1>7. op \in Int /\ Base - op = (hist + k) - d
    BY <1>4, <1>5, <1>6 DEF BackInWindow
  <1>8. Holds(window, wsize, wnext, whave, Base) /\ whave = Min2(Base, WSizeNow)
    BY <1>4 DEF Content, BlockModes
  <1>9. wbits \in 0..MaxWBits /\ WSizeNow = WindowOf[wbits] /\ WindowOf[wbits] \in Nat
    BY <1>4, WindowSizes, InflateAssumption DEF Shape, WSizeNow
  <1>10. m \in {0, n} /\ (m # 0 => ~TooFar(c, d))
    BY DEF Copied
  <1> HIDE DEF m
  <1>11. ~WrongCopy(c, n, d)
    <2>1. SUFFICES ASSUME op > 0, NEW i \in 0..(m - 1), FastSource(op, i) >= 0
                   PROVE  window[FastSource(op, i)] = ((hist + k) - d) + i
      BY <1>5 DEF WrongCopy, FastMisread, m
    <2>2. m # 0 /\ i \in Nat
      BY <1>4, <1>10, <2>1
    <2>3. op <= whave /\ op \in Nat
      <3>1. whave \in Int
        BY <1>6, <1>8, <1>9 DEF Min2
      <3>2. QED
        BY <1>7, <1>10, <2>1, <2>2, <3>1 DEF TooFar
    <2> HIDE DEF op
    <2>4. window[FastSource(op, i)] = (Base - op) + i
      BY <1>6, <1>8, <2>1, <2>3, FastReads
    <2>5. QED
      BY <1>7, <2>4
  <1>12. faults' = faults
    BY <1>2, <1>11 DEF Fault
  <1>13. TooFar(c, d) <=> op > 0 /\ op > whave
    BY DEF TooFar
  <1> HIDE DEF op
  <1>14. d <= hist + k /\ d <= WindowOf[wbits] => ~TooFar(c, d)
    <2>1. ASSUME d <= hist + k, d <= WindowOf[wbits], op > 0 PROVE op <= whave
      <3>1. op <= Base /\ op <= d
        BY <1>4, <1>6, <1>7, <2>1
      <3>2. QED
        BY <1>4, <1>6, <1>7, <1>8, <1>9, <2>1, <3>1 DEF Min2
    <2>2. whave \in Int
      BY <1>6, <1>8, <1>9 DEF Min2
    <2>3. QED
      BY <1>7, <1>13, <2>1, <2>2
  <1>15. d > hist + k => TooFar(c, d)
    <2>1. ASSUME d > hist + k PROVE op > Base
      BY <1>4, <1>6, <1>7, <2>1
    <2>2. whave \in Int /\ whave <= Base
      BY <1>6, <1>8, <1>9 DEF Min2
    <2>3. QED
      BY <1>6, <1>7, <1>13, <2>1, <2>2
  <1>16. valid' = (IF d > hist + k THEN "bad"
                   ELSE IF d > WindowOf[wbits] /\ valid = "ok" THEN "open" ELSE valid)
    BY <1>2, <1>5 DEF Judge
  <1>17. valid \in {"ok", "open", "bad"} /\ (valid = "bad" => "check" \notin wrap) /\ "stall" \notin faults
    BY <1>4 DEF ControlTypes, Judged
  <1>18. Judged'
    <2>1. valid' = "bad" /\ "check" \in wrap => d > hist + k
      BY <1>16, <1>17
    <2>2. valid' = "ok" => d <= hist + k /\ d <= WindowOf[wbits]
      BY <1>4, <1>6, <1>9, <1>16
    <2>3. CASE TooLong(c, n)
      <3>1. mode' = "MATCH" /\ offset' = d /\ m = 0
        BY <1>2, <2>3 DEF m, Copied
      <3>2. hist' = hist + k
        BY <1>2, <1>5, <3>1 DEF FastStep
      <3>3. QED
        BY <1>3, <1>12, <1>16, <1>17, <2>1, <2>2, <3>1, <3>2 DEF Judged
    <2>4. CASE ~TooLong(c, n) /\ TooFar(c, d)
      <3>1. mode' = "BAD" /\ valid' # "ok"
        BY <1>2, <1>14, <2>2, <2>4
      <3>2. QED
        BY <1>12, <1>17, <3>1 DEF Judged
    <2>5. CASE ~TooLong(c, n) /\ ~TooFar(c, d)
      <3>1. mode' = "LEN" /\ ~(valid' = "bad" /\ "check" \in wrap)
        BY <1>2, <1>15, <2>1, <2>5
      <3>2. QED
        BY <1>3, <1>12, <1>17, <3>1 DEF Judged
    <2>6. QED
      BY <2>3, <2>4, <2>5
  <1>19. mode' \in {"LEN", "TYPE", "BAD", "MATCH"} /\ valid' \in {"ok", "open", "bad"}
    BY <1>2, <1>16, <1>17
  <1>20. length' \in Nat /\ offset' \in Nat
    BY <1>2, <1>4 DEF CodeTypes
  <1>21. QED
    BY <1>1, <1>2, <1>3, <1>12, <1>18, <1>19, <1>20, FastKeeps

-----------------------------------------------------------------------------
(* The trailer, and the ways out of the loop.                              *)

\* case CHECK: the output not hashed yet is hashed, then compared.
LEMMA CheckKeeps ==
    ASSUME IInv, NEW good \in BOOLEAN, Check(good)
    PROVE  IInv'
  <1>1. /\ mode = "CHECK" /\ pc = "run" /\ fast = "no"
        /\ have' \in Nat /\ have' <= have /\ bits' \in Nat
        /\ valid' = (IF good THEN valid ELSE "bad") /\ mode' \in {"LENGTH", "BAD"}
        /\ \/ wrap = {} /\ good /\ mode' = "LENGTH" /\ UNCHANGED <<total, out, check, have, bits>>
           \/ /\ wrap # {} /\ total' = total + Made /\ out' = left
              /\ check' = (IF "check" \in wrap THEN Summed(check, put - Made, put) ELSE check)
              /\ mode' = "LENGTH" => bits' = 0
              /\ mode' = "LENGTH" /\ "check" \in wrap => good /\ check' = [of |-> "data", n |-> put]
              /\ mode' = "BAD" => /\ "check" \in wrap
                                  /\ good => check' # [of |-> "data", n |-> put]
                                  /\ bits' <= 39 \/ bits' = bits
    BY CheckDoes
  <1>2. UNCHANGED <<last, headVars, put, codeVars, winVars, tabVars, flush, in, left, fast, ret, pc,
                    sym, req, hist, faults>>
    BY DEF Check
  <1>3. sym.k = "none" /\ put \in Int /\ Made \in Int /\ put - Made \in Int /\ total \in Nat
    BY <1>1, CodeBegun DEF CountTypes, Made, OutTypes
  <1>4. /\ Summed(check, put - Made, put) \in CheckValues
        /\ "check" \in wrap => Summed(check, put - Made, put) = [of |-> "data", n |-> put]
    BY <1>1, <1>3, SummedIs DEF Sums
  <1>5. (FlagsType /\ HeadType /\ SymType /\ CodeTypes /\ NoBitFaults /\ CopiesRight)'
    BY <1>1, <1>2, <1>3 DEF FlagsType, HeadType, SymType, CodeTypes, NoBitFaults, CopiesRight
  <1>6. ControlTypes'
    BY <1>1, <1>2 DEF ControlTypes, Modes
  <1>7. InTypes'
    BY <1>1, <1>2 DEF InTypes
  <1>8. OutTypes'
    BY <1>1, <1>2 DEF OutTypes
  <1>9. CheckType'
    BY <1>1, <1>4 DEF CheckType
  <1>10. CountTypes'
    BY <1>1, <1>2 DEF CountTypes, Made, OutTypes
  <1>11. Calling'
    BY <1>1, <1>2 DEF InCall, InTypes, Begun, Counting
  <1>12. (HeldInHeader /\ HeldInBlock)'
    BY <1>1 DEF HeldInHeader, HeldInBlock
  <1>13. HeldInCode'
    <2>1. bits' <= 39
      BY <1>1 DEF HeldInCode
    <2>2. QED
      BY <1>1, <1>2, <1>3, <2>1 DEF HeldInCode
  <1>14. Margins'
    BY <1>1, <1>2 DEF Margins
  <1>15. Counted'
    BY <1>1, <1>2 DEF Counted, Made, HeadModes, CountTypes, OutTypes
  <1>16. Shape'
    BY <1>1, <1>2, <1>3, WindowSizes DEF Shape, NoFlags
  <1>17. Content'
    BY <1>1 DEF Content, HeadModes, BlockModes, OutTypes, CountTypes
  <1>18. Sums'
    BY <1>1, <1>2 DEF Sums, BlockModes
  <1>19. Judged'
    <2>1. "check" \in wrap => valid # "bad"
      BY <1>1 DEF Judged
    <2>2. mode' = "BAD" => ~good
      BY <1>1, <1>4
    <2>3. mode' = "LENGTH" /\ "check" \in wrap => good
      BY <1>1
    <2>4. QED
      BY <1>1, <1>2, <2>1, <2>2, <2>3 DEF Judged
  <1>20. Saved'
    BY <1>1, <1>2 DEF Saved, HeaderSaved, HeadModes
  <1>21. QED
    BY <1>5, <1>6, <1>7, <1>8, <1>9, <1>10, <1>11, <1>12, <1>13, <1>14, <1>15, <1>16, <1>17, <1>18,
      <1>19, <1>20

\* case LENGTH.
LEMMA LengthKeeps ==
    ASSUME IInv, NEW good \in BOOLEAN, Length(good)
    PROVE  IInv'
  <1> USE DEF Length, Running, EnoughNow
  <1>1. (FlagsType /\ CheckType /\ HeadType /\ SymType /\ OutTypes /\ CountTypes /\ CodeTypes /\
         NoBitFaults /\ CopiesRight)'
    BY DEF FlagsType, CheckType, HeadType, SymType, OutTypes, CountTypes, CodeTypes, NoBitFaults,
      CopiesRight
  <1>2. (ControlTypes /\ InTypes)'
    BY NeedIs, TakeAllIs, BitsOfIs DEF ControlTypes, Modes, InTypes
  <1>3. Calling'
    BY NeedIs, TakeAllIs, BitsOfIs DEF InCall, InTypes, Begun, Counting
  <1>4. HeldInCode'
    BY NeedIs, TakeAllIs, BitsOfIs, CodeBegun DEF HeldInCode, InTypes
  <1>5. HeldInHeader'
    BY DEF HeldInHeader
  <1>6. HeldInBlock'
    BY DEF HeldInBlock
  <1>7. Margins'
    BY DEF Margins
  <1>8. Counted'
    BY DEF Counted, Made, HeadModes
  <1>9. Shape'
    BY DEF Shape
  <1>10. Content'
    BY DEF Content, HeadModes, BlockModes
  <1>11. Sums'
    BY DEF Sums, BlockModes
  <1>12. Judged'
    BY DEF Judged, Counted, CountTypes
  <1>13. Saved'
    BY DEF Saved, HeaderSaved, HeadModes
  <1>14. QED
    BY <1>1, <1>2, <1>3, <1>4, <1>5, <1>6, <1>7, <1>8, <1>9, <1>10, <1>11, <1>12, <1>13

\* cases DONE and BAD.
LEMMA OverKeeps ==
    ASSUME IInv, Over
    PROVE  IInv'
  <1> USE DEF Over, Leave
  <1>1. (FlagsType /\ CheckType /\ HeadType /\ SymType /\ InTypes /\ OutTypes /\ CountTypes /\
         CodeTypes /\ Begun /\ Counting /\ HeldInCode /\ HeldInHeader /\ HeldInBlock /\ Margins /\
         NoBitFaults /\ CopiesRight /\ Counted /\ Shape /\ Content /\ Sums /\ Judged /\ Saved)'
    BY DEF FlagsType, CheckType, HeadType, SymType, InTypes, OutTypes, CountTypes, CodeTypes, Begun,
      Counting, HeldInCode, HeldInHeader, HeldInBlock, Margins, NoBitFaults, CopiesRight, Counted,
      Shape, Content, Sums, Judged, Saved, Made, Base, WSizeNow, HeaderSaved
  <1>2. ControlTypes'
    BY DEF ControlTypes, Modes, HeadModes, BlockModes
  <1>3. InCall'
    BY DEF InCall
  <1>4. QED
    BY <1>1, <1>2, <1>3

\* NEEDBITS without enough input.
LEMMA NeedBitsLeavesKeeps ==
    ASSUME IInv, NeedBitsLeaves
    PROVE  IInv'
  <1>1. /\ bits' \in Nat /\ bits' < BitsOf(mode) /\ have' = 0 /\ BitsOf(mode) > 0
        /\ mode \in {"HEAD", "FLAGS", "OS", "TIME", "DICTID", "STORED", "EXLEN", "HCRC", "TYPEDO",
                     "TABLE", "LENLENS", "LENEXT", "DISTEXT", "CHECK", "LENGTH"}
    BY NeedBitsIs
  <1>2. /\ pc = "run" /\ fast = "no" /\ pc' = "leave" /\ (mode = "HEAD" => wrap # {})
        /\ UNCHANGED <<mode, last, headVars, sumVars, codeVars, winVars, tabVars, callVars, left,
                       fast, ret, sym, req, hist, valid, faults>>
    BY DEF NeedBitsLeaves, Leave
  <1>3. sym.k = "none"
    BY <1>1, CodeBegun
  <1>4. Types'
    <2>1. ControlTypes'
      BY <1>2 DEF ControlTypes
    <2>2. InTypes'
      BY <1>1, <1>2 DEF InTypes
    <2>3. QED
      BY <1>2, <2>1, <2>2 DEF FlagsType, CheckType, HeadType, SymType, OutTypes, CountTypes,
        CodeTypes
  <1>5. Calling'
    BY <1>1, <1>2 DEF InCall, Begun, Counting, InTypes
  <1>6. Buffered'
    <2>1. extra \in Nat /\ extra <= 13 /\ (mode = "LENEXT" => extra <= 5)
      BY DEF CodeTypes, Counting
    <2>2. ASSUME mode \in {"HEAD", "FLAGS", "OS"} PROVE bits' <= 15
      BY <1>1, <2>2, BitsOfIs
    <2>3. ASSUME mode \in {"TIME", "DICTID", "STORED", "CHECK", "LENGTH"} PROVE bits' <= 31
      BY <1>1, <2>3, BitsOfIs
    <2>4. ASSUME mode = "EXLEN" PROVE bits' <= 15 /\ "extra" \in flags.f
      BY <1>1, <2>4, BitsOfIs
    <2>5. ASSUME mode = "HCRC" PROVE bits' <= 15 /\ "hcrc" \in flags.f
      BY <1>1, <2>5, BitsOfIs
    <2>6. ASSUME mode \in {"TYPEDO", "LENLENS"} PROVE bits' <= 2
      BY <1>1, <2>6, BitsOfIs
    <2>7. ASSUME mode = "TABLE" PROVE bits' <= 13
      BY <1>1, <2>7, BitsOfIs
    <2>8. ASSUME mode \in {"LENEXT", "DISTEXT"} PROVE bits' < extra
      BY <1>1, <2>8, BitsOfIs
    <2>9. bits' <= 31 /\ (mode = "LENEXT" => bits' <= 7)
      BY <1>1, <2>1, <2>2, <2>3, <2>4, <2>5, <2>6, <2>7, <2>8
    <2>10. HeldInCode'
      BY <1>1, <1>2, <1>3, <2>9 DEF HeldInCode
    <2>11. HeldInHeader'
      BY <1>1, <1>2, <2>2, <2>3, <2>4, <2>5 DEF HeldInHeader
    <2>12. HeldInBlock'
      BY <1>1, <1>2, <2>6, <2>7, <2>8, <2>9 DEF HeldInBlock
    <2>13. QED
      BY <2>10, <2>11, <2>12
  <1>7. Margins'
    BY <1>2 DEF Margins
  <1>8. (NoBitFaults /\ CopiesRight /\ Counted /\ Shape /\ Content /\ Sums /\ Judged /\ Saved)'
    BY <1>2 DEF NoBitFaults, CopiesRight, Counted, Shape, Content, Sums, Judged, Saved, HeaderSaved,
      Made, Base, WSizeNow
  <1>9. QED
    BY <1>4, <1>5, <1>6, <1>7, <1>8

\* inf_leave.
LEMMA InfLeaveKeeps ==
    ASSUME IInv, InfLeave
    PROVE  IInv'
  <1> DEFINE keep == KeepsWindow(Made)
  <1>1. /\ pc = "leave" /\ pc' = "idle" /\ ret' = "ok" /\ flush' = "none"
        /\ in' = 0 /\ out' = 0 /\ have' = 0 /\ left' = 0 /\ total' = total + Made
        /\ UNCHANGED <<mode, last, headVars, put, codeVars, wbits, bits, tabVars, fast, sym, req, hist,
                       valid>>
    BY DEF InfLeave, Made
  <1>2. IF keep THEN UpdateWindow(Made, hist) ELSE UNCHANGED <<wsize, whave, wnext, window>>
    BY DEF InfLeave, Made
  <1>3. check' = (IF (keep /\ "check" \in wrap) \/ SumsLate(keep) THEN Summed(check, put - Made, put)
                  ELSE check)
    BY DEF InfLeave, Made
  <1>4. faults' = faults
    <2> DEFINE stuck == ret = "ok" /\ (NoProgress(Made) \/ flush = "finish")
    <2>1. faults' = faults \cup Fault(stuck /\ flush = "none" /\ in > 0 /\ out > 0, "stall")
                           \cup Fault(have > in, "rewind")
      BY DEF InfLeave, Made
    <2>2. ~(stuck /\ flush = "none" /\ in > 0 /\ out > 0)
      <3>1. SUFFICES ASSUME ret = "ok", flush = "none", in = have, Made = 0, in > 0, out > 0 PROVE FALSE
        BY DEF NoProgress
      <3>2. have = 0 \/ left = 0
        BY <1>1, <3>1 DEF InCall
      <3>3. QED
        BY <3>1, <3>2 DEF Made, InTypes, OutTypes
    <2>3. ~(have > in)
      BY <1>1 DEF InCall, InTypes
    <2>4. QED
      BY <2>1, <2>2, <2>3 DEF Fault
  <1>5. /\ fast = "no" /\ Made \in Nat /\ hist \in Nat /\ put \in Nat /\ total \in Nat /\ put = total + Made
        /\ Base \in Nat /\ hist = Base + Made /\ Made' = 0 /\ Base' = hist
    BY <1>1 DEF InCall, Made, Base, OutTypes, CountTypes, Counted
  <1> HIDE DEF keep
  <1>6. Types'
    <2>1. CheckType'
      BY <1>3, <1>5, SummedIs DEF CheckType
    <2>2. QED
      BY <1>1, <1>5, <2>1 DEF ControlTypes, FlagsType, HeadType, SymType, InTypes, OutTypes,
        CountTypes, CodeTypes
  <1>7. (Calling /\ Buffered /\ Margins)'
    BY <1>1 DEF InCall, Begun, Counting, HeldInCode, HeldInHeader, HeldInBlock, Margins
  <1>8. (NoBitFaults /\ CopiesRight /\ Judged /\ Saved)'
    BY <1>1, <1>4 DEF NoBitFaults, CopiesRight, Judged, Saved, HeaderSaved
  <1>9. Counted'
    BY <1>1, <1>5 DEF Counted
  <1>10. keep => wbits \in 0..MaxWBits /\ ~(mode = "HEAD" /\ wbits = 0)
    <2>1. SUFFICES ASSUME keep PROVE wbits <= MaxWBits /\ ~(mode = "HEAD" /\ wbits = 0)
      BY DEF Shape
    <2>2. CASE wsize # 0
      BY <2>2 DEF Shape
    <2>3. CASE Made > 0 /\ mode # "BAD"
      <3>1. wbits # MaxWBits + 1
        BY <2>3 DEF Shape
      <3>2. mode # "HEAD"
        BY <2>3 DEF Counted, HeadModes
      <3>3. QED
        BY <3>1, <3>2, InflateAssumption DEF Shape
    <2>4. QED
      BY <2>1, <2>2, <2>3 DEF keep, KeepsWindow
  <1>11. Shape'
    <2>1. CASE ~keep
      BY <1>1, <1>2, <2>1 DEF Shape
    <2>2. CASE keep
      <3>1. /\ wsize' = WindowOf[wbits] /\ wsize' \in Nat \ {0}
            /\ window' \in [0..(WindowOf[MaxWBits] - 1) -> Int]
            /\ wnext' \in 0..(wsize' - 1) /\ whave' \in 0..wsize' /\ (whave' < wsize' => wnext' = whave')
        BY <1>1, <1>2, <1>5, <1>10, <2>2, UpdateShape
      <3>2. wbits' = wbits /\ wbits \in 0..MaxWBits /\ ~(mode = "HEAD" /\ wbits = 0)
        BY <1>1, <1>10, <2>2
      <3>3. wbits # MaxWBits + 1
        BY <3>2, InflateAssumption
      <3>4. QED
        BY <1>1, <3>1, <3>2, <3>3 DEF Shape
    <2>3. QED
      BY <2>1, <2>2
  <1>12. Content'
    <2>1. SUFFICES ASSUME mode \in HeadModes \cup BlockModes
                   PROVE  whave' = Min2(hist, WSizeNow') /\ Holds(window', wsize', wnext', whave', hist)
      BY <1>1, <1>5 DEF Content
    <2>2. whave = Min2(Base, WSizeNow) /\ Holds(window, wsize, wnext, whave, Base)
      BY <2>1 DEF Content
    <2>3. CASE keep
      <3>1. whave' = Min2(Base + Made, wsize') /\ Holds(window', wsize', wnext', whave', Base + Made)
        BY <1>1, <1>2, <1>5, <1>10, <2>2, <2>3, UpdateHolds
      <3>2. wsize' # 0
        BY <1>1, <1>2, <1>5, <1>10, <2>3, UpdateShape
      <3>3. QED
        BY <1>5, <3>1, <3>2 DEF WSizeNow
    <2>4. CASE ~keep
      <3>1. Made = 0
        <4>1. mode \notin {"BAD", "CHECK", "LENGTH", "DONE"}
          BY <2>1 DEF HeadModes, BlockModes
        <4>2. QED
          BY <1>5, <2>4, <4>1 DEF keep, KeepsWindow
      <3>2. hist = Base
        BY <1>5, <3>1
      <3>3. UNCHANGED <<wsize, whave, wnext, window, wbits>>
        BY <1>1, <1>2, <2>4
      <3>4. QED
        BY <2>2, <3>2, <3>3 DEF WSizeNow
    <2>5. QED
      BY <2>3, <2>4
  <1>13. Sums'
    <2>1. ASSUME "check" \in wrap, mode \in BlockModes \cup {"CHECK"}
          PROVE  check' = [of |-> "data", n |-> put]
      <3>1. check = [of |-> "data", n |-> put - Made]
        BY <2>1 DEF Sums
      <3>2. Summed(check, put - Made, put) = [of |-> "data", n |-> put]
        BY <1>5, <3>1, SummedIs
      <3>3. CASE Made = 0
        <4>1. check = [of |-> "data", n |-> put]
          BY <1>5, <3>1, <3>3
        <4>2. QED
          BY <1>3, <3>2, <4>1
      <3>4. CASE Made # 0 /\ ~keep
        <4>1. mode = "CHECK" /\ flush = "finish"
          BY <1>5, <2>1, <3>4 DEF keep, KeepsWindow, BlockModes
        <4>2. ret = "ok"
          BY <4>1 DEF InCall
        <4>3. SumsLate(keep)
          BY <3>4, <4>1, <4>2 DEF SumsLate
        <4>4. QED
          BY <1>3, <3>2, <4>3
      <3>5. CASE keep
        BY <1>3, <2>1, <3>2, <3>5
      <3>6. QED
        BY <3>3, <3>4, <3>5
    <2>2. ASSUME mode \in HeadModes PROVE check' = check
      <3>1. Made = 0 /\ put - Made = put
        BY <1>5, <2>2 DEF Counted
      <3>2. Summed(check, put - Made, put) = check
        BY <3>1 DEF Summed
      <3>3. QED
        BY <1>3, <3>2
    <2>3. put' - Made' = put
      BY <1>1, <1>5
    <2>4. QED
      BY <1>1, <2>1, <2>2, <2>3 DEF Sums, HeadModes
  <1>14. QED
    BY <1>6, <1>7, <1>8, <1>9, <1>11, <1>12, <1>13

-----------------------------------------------------------------------------
(* The invariant, and what it says.                                        *)

\* inflateInit2 leaves a stream that satisfies the invariant.
LEMMA InitHolds == Init => IInv
  <1>1. SUFFICES ASSUME Init PROVE IInv
    OBVIOUS
  <1>2. /\ req \in Requests /\ wrap = req.wrap /\ wbits = req.wbits
        /\ wsize = 0 /\ whave = 0 /\ wnext = 0 /\ window = [i \in 0..(WindowOf[MaxWBits] - 1) |-> -1]
        /\ mode = "HEAD" /\ check = NoCheck /\ last = FALSE /\ havedict = FALSE
        /\ flags = NoFlags /\ head = NoHead /\ bits = 0  /\ total = 0
        /\ length = 0 /\ offset = 0 /\ extra = 0 /\ ncode = 0 /\ nlen = 0 /\ lens = 0
        /\ flush = "none" /\ in = 0 /\ out = 0 /\ have = 0 /\ left = 0 /\ fast = "no"
        /\ ret = "ok" /\ pc = "idle" /\ sym = NoSym
        /\ hist = 0 /\ put = 0 /\ hdr = 0 /\ valid = "ok" /\ faults = {}
    BY <1>1 DEF Init
  <1>3. /\ wrap \subseteq {"zlib", "gzip", "check"} /\ wbits \in 0..MaxWBits /\ MaxWBits \in Nat
        /\ wrap = {} => wbits # 0
        /\ wrap # {} => wrap \cap {"zlib", "gzip"} # {}
    BY <1>2, InflateAssumption
  <1>4. Made = 0 /\ Base = 0
    BY <1>2 DEF Made, Base
  <1>5. Types
    <2>1. ControlTypes
      BY <1>2, <1>3 DEF ControlTypes, Modes, HeadModes
    <2>2. RecordTypes
      BY <1>2, FreshHead DEF FlagsType, NoFlags, CheckType, CheckValues, NoCheck, HeadType, SymType,
        NoSym, SymKinds
    <2>3. NumberTypes
      BY <1>2 DEF InTypes, OutTypes, CountTypes, CodeTypes
    <2>4. QED
      BY <2>1, <2>2, <2>3
  <1>6. Calling
    BY <1>2 DEF InCall, Begun, Counting, NoSym
  <1>7. Buffered
    BY <1>2, InflateAssumption DEF HeldInCode, HeldInHeader, HeldInBlock, NoSym
  <1>8. Margins /\ NoBitFaults /\ CopiesRight /\ Judged
    BY <1>2 DEF Margins, NoBitFaults, CopiesRight, Judged
  <1>9. Counted
    BY <1>2, <1>4 DEF Counted
  <1>10. Shape
    BY <1>2, <1>3 DEF Shape
  <1>11. Content
    <2>1. WSizeNow \in Nat
      BY <1>2, <1>3, WindowSizes DEF WSizeNow
    <2>2. QED
      BY <1>2, <1>4, <2>1 DEF Content, Holds, Min2
  <1>12. Sums
    BY <1>2, <1>3 DEF Sums, BlockModes
  <1>13. Saved
    BY <1>2, FreshHead DEF Saved, HeaderSaved
  <1>14. QED
    BY <1>5, <1>6, <1>7, <1>8, <1>9, <1>10, <1>11, <1>12, <1>13

\* The calls between inflate() calls keep the invariant.
LEMMA CallerKeeps ==
    ASSUME IInv, Caller
    PROVE  IInv'
  <1>1. CASE InflateResetKeep \/ InflateReset \/ \E r \in Requests : InflateReset2(r)
    BY <1>1, InflateResetKeepKeeps, InflateResetKeeps, InflateReset2Keeps
  <1>2. CASE (\E n \in PrimeSizes : InflatePrime(n)) \/ InflatePrimeClear
    BY <1>2, InflatePrimeKeeps, InflatePrimeClearKeeps
  <1>3. CASE InflateValidateOff \/ InflateGetHeader \/ InflateCopy
    BY <1>3, InflateValidateOffKeeps, InflateGetHeaderKeeps, InflateCopyKeeps
  <1>4. CASE \E n \in DictSizes : InflateSetDictionary(n)
    BY <1>4, InflateSetDictionaryKeeps
  <1>5. CASE \E b, h \in SyncBytes : InflateSync(b, h)
    BY <1>5, InflateSyncKeeps
  <1>6. CASE \E c \in Calls : Call(c[1], c[2], c[3])
    BY <1>6, CallKeeps
  <1>7. QED
    BY <1>1, <1>2, <1>3, <1>4, <1>5, <1>6 DEF Caller

\* The modes of a header keep the invariant.
LEMMA HeaderKeeps ==
    ASSUME IInv, Header
    PROVE  IInv'
  <1>1. CASE HeadRaw \/ HeadGzip \/ HeadBad \/ FlagsBad \/ TimeOrOS \/ Extra
    BY <1>1, HeadRawKeeps, HeadGzipKeeps, HeadBadKeeps, FlagsBadKeeps, TimeOrOSKeeps, ExtraKeeps
  <1>2. CASE \E len \in 1..(MaxWBits + 1), dict \in BOOLEAN : HeadZlib(len, dict)
    BY <1>2, HeadZlibKeeps
  <1>3. CASE \E f \in GzFlags : Flags(f)
    BY <1>3, FlagsKeeps
  <1>4. CASE \E n \in ExtraLens \cup {0} : Exlen(n)
    BY <1>4, ExlenKeeps
  <1>5. CASE \E r \in TextLens \cup {sym.n} : Text("NAME", "name", r)
    BY <1>5, TextNameKeeps
  <1>6. CASE \E r \in TextLens \cup {sym.n} : Text("COMMENT", "comment", r)
    BY <1>6, TextCommentKeeps
  <1>7. CASE NoText("NAME", "name") \/ NoText("COMMENT", "comment")
    BY <1>7, NoTextNameKeeps, NoTextCommentKeeps
  <1>8. CASE \E good \in BOOLEAN : Hcrc(good)
    BY <1>8, HcrcKeeps
  <1>9. CASE DictId \/ NeedDict \/ HaveDict
    BY <1>9, DictIdKeeps, NeedDictKeeps, HaveDictKeeps
  <1>10. QED
    BY <1>1, <1>2, <1>3, <1>4, <1>5, <1>6, <1>7, <1>8, <1>9 DEF Header

\* The modes of a block's header and of a stored block keep the invariant.
LEMMA BlocksKeep ==
    ASSUME IInv, Blocks
    PROVE  IInv'
  <1>1. CASE Type \/ LastBlock \/ StoredBad \/ Copy \/ TableBad
    BY <1>1, TypeKeeps, LastBlockKeeps, StoredBadKeeps, CopyKeeps, TableBadKeeps
  <1>2. CASE \E final \in BOOLEAN, kind \in {"stored", "fixed", "dynamic", "bad"} :
               BlockHeader(final, kind)
    BY <1>2, BlockHeaderKeeps
  <1>3. CASE \E n \in StoredLens : Stored(n)
    BY <1>3, StoredKeeps
  <1>4. CASE \E c \in NCodes, n \in NLens : Table(c, n)
    BY <1>4, TableKeeps
  <1>5. CASE \E good \in BOOLEAN : LenLens(good) \/ Tables(good)
    BY <1>5, LenLensKeeps, TablesKeeps
  <1>6. CASE \E s \in LengthSyms : CodeLen(s)
    BY <1>6, CodeLenKeeps
  <1>7. QED
    BY <1>1, <1>2, <1>3, <1>4, <1>5, <1>6 DEF Blocks

\* The modes of the codes of a block keep the invariant.
LEMMA CodesKeep ==
    ASSUME IInv, Codes
    PROVE  IInv'
  <1>1. CASE \E s \in Symbols \cup (IF sym.k = "none" THEN {} ELSE {sym}) : Len_(s)
    BY <1>1, LenKeeps
  <1>2. CASE \E n \in EndCodes : LenBad(n) \/ DistBad(n)
    BY <1>2, LenBadKeeps, DistBadKeeps
  <1>3. CASE \E n \in Lengths : LenExt(n)
    BY <1>3, LenExtKeeps
  <1>4. CASE \E c \in DistCodes : Dist(c)
    BY <1>4, DistKeeps
  <1>5. CASE \E d \in Offsets : DistExt(d)
    BY <1>5, DistExtKeeps
  <1>6. CASE Match \/ Lit
    BY <1>6, MatchKeeps, LitKeeps
  <1>7. QED
    BY <1>1, <1>2, <1>3, <1>4, <1>5, <1>6 DEF Codes

\* inflate_fast keeps the invariant.
LEMMA FastLoopKeeps ==
    ASSUME IInv, Fast
    PROVE  IInv'
  <1>1. CASE FastEnter
    BY <1>1, FastEnterKeeps
  <1>2. CASE \E c \in LitRuns(LitCodes) : FastLits(c)
    BY <1>2, FastLitsKeeps
  <1>3. CASE \E c \in LitRuns(LitCodes), n \in EndCodes, good \in BOOLEAN : FastEnd(c, n, good)
    BY <1>3, FastEndKeeps
  <1>4. CASE \E c \in LitRuns(LitCodes), l \in LenCodes, n \in Lengths, e \in DistCodes, d \in Offsets :
               FastMatch(c, l, n, e, d)
    BY <1>4, FastMatchKeeps
  <1>5. CASE \E c \in LitRuns(LitCodes), l \in LenCodes, n \in EndCodes : FastDistBad(c, l, n)
    BY <1>5, FastDistBadKeeps
  <1>6. QED
    BY <1>1, <1>2, <1>3, <1>4, <1>5 DEF Fast

\* The trailer keeps the invariant.
LEMMA TrailerKeeps ==
    ASSUME IInv, Trailer
    PROVE  IInv'
  <1>1. CASE \E good \in BOOLEAN : Check(good) \/ Length(good)
    BY <1>1, CheckKeeps, LengthKeeps
  <1>2. CASE Over
    BY <1>2, OverKeeps
  <1>3. QED
    BY <1>1, <1>2 DEF Trailer

\* Every step of inflate() and of its caller keeps the invariant.
LEMMA NextKeeps == IInv /\ [Next]_vars => IInv'
  <1>1. SUFFICES ASSUME IInv, [Next]_vars PROVE IInv'
    OBVIOUS
  <1>2. CASE Caller
    BY <1>1, <1>2, CallerKeeps
  <1>3. CASE NeedBitsLeaves \/ InfLeave
    BY <1>1, <1>3, NeedBitsLeavesKeeps, InfLeaveKeeps
  <1>4. CASE Header
    BY <1>1, <1>4, HeaderKeeps
  <1>5. CASE Blocks
    BY <1>1, <1>5, BlocksKeep
  <1>6. CASE Codes
    BY <1>1, <1>6, CodesKeep
  <1>7. CASE Fast
    BY <1>1, <1>7, FastLoopKeeps
  <1>8. CASE Trailer
    BY <1>1, <1>8, TrailerKeeps
  <1>9. CASE UNCHANGED vars
    <2>1. (ControlTypes /\ RecordTypes /\ NumberTypes)'
      BY <1>1, <1>9 DEF vars, ControlTypes, FlagsType, CheckType, HeadType, SymType, InTypes,
        OutTypes, CountTypes, CodeTypes
    <2>2. (Calling /\ Buffered /\ Margins /\ NoBitFaults /\ CopiesRight)'
      BY <1>1, <1>9 DEF vars, InCall, Begun, Counting, HeldInCode, HeldInHeader, HeldInBlock,
        Margins, NoBitFaults, CopiesRight
    <2>3. (Counted /\ Shape /\ Content /\ Sums /\ Judged /\ Saved)'
      BY <1>1, <1>9 DEF vars, Counted, Shape, Content, Sums, Judged, Saved, HeaderSaved, Made, Base,
        WSizeNow
    <2>4. QED
      BY <2>1, <2>2, <2>3
  <1>10. QED
    BY <1>1, <1>2, <1>3, <1>4, <1>5, <1>6, <1>7, <1>8, <1>9 DEF Next, Step

\* inflate's inductive invariant holds for every window size, code table, piece of
\* input and output space, and every order of calls.
THEOREM InflateInvariant == Spec => []IInv
  BY InitHolds, NextKeeps, PTL DEF Spec

\* The inner loop's margins suffice and every variable stays in its range: no lookup
\* with too few bits, no refill beyond the input, no byte beyond the output, no return
\* of bytes that were not the caller's.
THEOREM MarginsSuffice == Spec => []FastMargins
  <1>1. ASSUME IInv PROVE FastMargins
    <2>1. wsize \in {0} \cup {WindowOf[w] : w \in 0..MaxWBits} /\ whave \in 0..wsize
          /\ wnext \in 0..wsize /\ (wsize > 0 => wnext < wsize) /\ wbits \in 0..(MaxWBits + 1)
      <3>1. CASE wsize = 0
        BY <1>1, <3>1 DEF Shape
      <3>2. CASE wsize # 0
        <4>1. wbits \in 0..MaxWBits /\ wsize = WindowOf[wbits] /\ wsize \in Nat /\ wnext \in 0..(wsize - 1)
              /\ whave \in 0..wsize
          BY <1>1, <3>2, WindowSizes DEF Shape
        <4>2. QED
          BY <1>1, <4>1 DEF Shape
      <3>3. QED
        BY <3>1, <3>2
    <2>2. bits \in 0..63 /\ (fast = "no" => bits <= 39)
      <3>1. CASE fast = "no"
        BY <1>1, <3>1 DEF InTypes, HeldInCode
      <3>2. CASE fast # "no"
        BY <1>1, <3>2, FastAssumption DEF Margins
      <3>3. QED
        BY <3>1, <3>2
    <2>3. total \in 0..put
      BY <1>1 DEF Counted, CountTypes, Made, OutTypes
    <2>4. lens \in 0..316 /\ (mode = "LENLENS" => lens <= 19) /\ (mode = "CODELENS" => lens <= nlen)
      BY <1>1 DEF Counting, CodeTypes
    <2>5. TypeOK
      BY <1>1, <2>1, <2>2, <2>3, <2>4 DEF TypeOK, ControlTypes, InTypes, OutTypes
    <2>6. QED
      BY <1>1, <2>5 DEF FastMargins, NoBitFaults
  <1>2. QED
    BY <1>1, InflateInvariant, PTL

\* Between calls the window holds the end of the history, in order.
THEOREM WindowHoldsHistory == Spec => []HistoryInWindow
  <1>1. ASSUME IInv PROVE HistoryInWindow
    <2>1. SUFFICES ASSUME pc = "idle", mode \in HeadModes \cup BlockModes
                   PROVE  /\ Dictionary = [i \in 1..whave |-> hist - whave + i - 1]
                          /\ whave = Min2(hist, WSizeNow)
      BY DEF HistoryInWindow
    <2>2. Base = hist
      BY <1>1, <2>1, IdleMade
    <2>3. whave = Min2(hist, WSizeNow) /\ Holds(window, wsize, wnext, whave, hist)
      BY <1>1, <2>1, <2>2 DEF Content
    <2>4. hist \in Nat /\ (wsize = 0 => whave = 0)
      BY <1>1 DEF CountTypes, Shape
    <2>5. wsize # 0 => /\ wsize \in Nat /\ wnext \in Nat /\ wnext < wsize /\ whave \in Nat /\ whave <= wsize
                       /\ whave < wsize => wnext = whave
      BY <1>1, WindowSizes DEF Shape
    <2> DEFINE byte(i) == IF i <= whave - wnext THEN window[wnext + i - 1]
                          ELSE window[i - (whave - wnext) - 1]
    <2>6. ASSUME NEW i \in 1..whave PROVE byte(i) = hist - whave + i - 1
      <3>1. /\ wsize \in Nat /\ wnext \in Nat /\ wnext < wsize /\ whave \in Nat /\ whave <= wsize
            /\ whave < wsize => wnext = whave
        BY <2>4, <2>5, <2>6
      <3>2. \A j \in 0..(whave - 1) :
              window[j] = IF j < wnext THEN (hist - wnext) + j ELSE (hist - wsize) + (j - wnext)
        BY <2>3 DEF Holds
      <3>3. CASE i <= whave - wnext
        <4>1. whave = wsize /\ wnext + i - 1 \in 0..(whave - 1) /\ ~(wnext + i - 1 < wnext)
          BY <3>1, <3>3
        <4>2. window[wnext + i - 1] = (hist - wsize) + ((wnext + i - 1) - wnext)
          BY <3>2, <4>1
        <4>3. QED
          BY <2>4, <3>1, <3>3, <4>1, <4>2
      <3>4. CASE ~(i <= whave - wnext)
        <4> DEFINE j == i - (whave - wnext) - 1
        <4>1. j \in 0..(whave - 1) /\ j < wnext
          BY <3>1, <3>4
        <4>2. window[j] = (hist - wnext) + j
          <5> HIDE DEF j
          <5>1. QED
            BY <3>2, <4>1
        <4>3. QED
          BY <2>4, <3>1, <3>4, <4>2
      <3>5. QED
        BY <3>3, <3>4
    <2> HIDE DEF byte
    <2>7. Dictionary = [i \in 1..whave |-> byte(i)]
      BY DEF Dictionary, byte
    <2>8. QED
      BY <2>3, <2>6, <2>7
  <1>2. QED
    BY <1>1, InflateInvariant, PTL

\* Every byte a match copies out of the window is the byte that far back in the output.
THEOREM CopiesAreRight == Spec => []CopiesRight
  <1>1. IInv => CopiesRight
    OBVIOUS
  <1>2. QED
    BY <1>1, InflateInvariant, PTL

\* inflate refuses only what has to be refused, accepts nothing it has to refuse with
\* the check on, and never answers Z_BUF_ERROR to a caller that gave input and space.
THEOREM VerdictIsRight == Spec => []Verdict
  <1>1. IInv => Verdict
    BY DEF Judged, Verdict
  <1>2. QED
    BY <1>1, InflateInvariant, PTL

\* A gzip header that comes in pieces is saved as if it had come at once.
THEOREM HeaderIsSaved == Spec => []HeaderSaved
  <1>1. IInv => HeaderSaved
    BY DEF Saved
  <1>2. QED
    BY <1>1, InflateInvariant, PTL
=============================================================================
