--------------------------- MODULE FrameSystemProof ---------------------------
(* Proofs about the frame system, for every file and every fault. *)
EXTENDS FrameSystem, TLAPS

USE NumFramesAssumption, BadFramesAssumption, IoFaultsAssumption,
    MaxEpochAssumption
    DEF NumFramesAssumption, BadFramesAssumption, IoFaultsAssumption,
        MaxEpochAssumption

-----------------------------------------------------------------------------
(* Type correctness needs to know that a call in progress has reads left. *)
TypeInv == TypeOK /\ (ppc # "idle" => todo \in 1 .. 2)

LEMMA TargetsInFile == SeekTargets \subseteq 0 .. NumFrames
BY DEF SeekTargets, Frames

LEMMA TypeInit == Init => TypeInv
<1> SUFFICES ASSUME Init PROVE TypeInv
    OBVIOUS
<1>1. /\ sem_free \in BOOLEAN /\ sem_ready \in BOOLEAN /\ running \in BOOLEAN
      /\ eof_reached \in BOOLEAN /\ has_error \in BOOLEAN /\ settled \in BOOLEAN
  BY Zenon DEF Init
<1> QED BY <1>1 DEF Init, TypeInv, TypeOK, Statuses, Commands, Contents,
                    ReaderPoints, PlayerPoints, NoCommand, Zero

LEMMA TypeReader == TypeInv /\ Reader => TypeInv'
<1> SUFFICES ASSUME TypeInv, Reader PROVE TypeInv'
    OBVIOUS
<1> USE DEF TypeInv, TypeOK, RGoto, semVars, flagVars, cmdVars, readerVars,
            playerVars, Statuses, ReaderPoints
<1>1. CASE RTake
  <2>1. sem_free' \in BOOLEAN BY <1>1, Zenon DEF RTake
  <2> QED BY <1>1, <2>1 DEF RTake
<1>2. CASE RDispatch BY <1>2 DEF RDispatch
<1>3. CASE RSeek BY <1>3 DEF RSeek
<1>4. CASE RAck BY <1>4 DEF RAck, Commands
<1>5. CASE RJudge BY <1>5 DEF RJudge
<1>6. CASE RFault BY <1>6 DEF RFault
<1>7. CASE RRewound
  <2>1. eof_reached' \in BOOLEAN /\ has_error' \in BOOLEAN
    BY <1>7, Zenon DEF RRewound
  <2> QED BY <1>7, <2>1 DEF RRewound, Contents
<1>8. CASE RFlags BY <1>8 DEF RFlags
<1>9. CASE RAtEof BY <1>9 DEF RAtEof
<1>10. CASE REpoch BY <1>10 DEF REpoch
<1>11. CASE RFill BY <1>11 DEF RFill, Contents
<1>12. CASE RFilled BY <1>12 DEF RFilled, Contents, Frames
<1>13. CASE RCompare BY <1>13 DEF RCompare
<1>14. CASE RPublish BY <1>14 DEF RPublish
<1>15. CASE RMark
  <2>1. eof_reached' \in BOOLEAN /\ has_error' \in BOOLEAN
    BY <1>15, Zenon DEF RMark
  <2> QED BY <1>15, <2>1 DEF RMark
<1>16. CASE RGiveReady BY <1>16 DEF RGiveReady
<1>17. CASE RStop
  <2>1. running' \in BOOLEAN BY <1>17, Zenon DEF RStop
  <2> QED BY <1>17, <2>1 DEF RStop
<1>18. CASE RGiveFree BY <1>18 DEF RGiveFree
<1> QED BY <1>1, <1>2, <1>3, <1>4, <1>5, <1>6, <1>7, <1>8, <1>9, <1>10, <1>11,
           <1>12, <1>13, <1>14, <1>15, <1>16, <1>17, <1>18 DEF Reader

LEMMA TypePlayer == TypeInv /\ (PlayerStep \/ PlayerCall) => TypeInv'
<1> SUFFICES ASSUME TypeInv, PlayerStep \/ PlayerCall PROVE TypeInv'
    OBVIOUS
<1> USE DEF TypeInv, TypeOK, PGoto, AfterRead, semVars, flagVars, cmdVars,
            readerVars, playerVars, Statuses, PlayerPoints
<1>1. CASE PDrain BY ZenonT(30), <1>1 DEF PDrain
<1>2. CASE PEpoch BY <1>2 DEF PEpoch
<1>3. CASE PCmd BY <1>3 DEF PCmd, Commands
<1>4. CASE PState BY <1>4 DEF PState
<1>5. CASE PGiveCmd BY <1>5 DEF PGiveCmd
<1>6. CASE PTake
  <2>1. sem_ready' \in BOOLEAN BY <1>6, Zenon DEF PTake
  <2> QED BY <1>6, <2>1 DEF PTake
<1>7. CASE PStatus BY <1>7 DEF PStatus
<1>8. CASE PCopy BY <1>8 DEF PCopy
<1>9. CASE PReturn BY <1>9 DEF PReturn, Frames
<1>10. CASE PRead(1) \/ PRead(2) BY <1>10 DEF PRead, NoCommand, Commands
<1>11. CASE PCommand("RESET", 0) BY <1>11 DEF PCommand, Commands
<1>12. ASSUME NEW idx \in SeekTargets, PCommand("SEEK", idx) PROVE TypeInv'
  BY <1>12, TargetsInFile DEF PCommand, Commands
<1> QED BY <1>1, <1>2, <1>3, <1>4, <1>5, <1>6, <1>7, <1>8, <1>9, <1>10, <1>11,
           <1>12 DEF PlayerStep, PlayerCall

LEMMA TypeStep == TypeInv /\ [Next]_vars => TypeInv'
<1>1. TypeInv /\ UNCHANGED vars => TypeInv'
  BY DEF TypeInv, TypeOK, vars, semVars, flagVars, cmdVars, readerVars, playerVars
<1> QED BY <1>1, TypeReader, TypePlayer DEF Next

(* Every variable keeps its type, and the file position never leaves the file
   (frame_reader.c:128-143, 151-183). *)
THEOREM TypeCorrect == Spec => []TypeOK
<1>1. TypeInv => TypeOK
  BY DEF TypeInv
<1> QED BY TypeInit, TypeStep, <1>1, PTL DEF Spec

-----------------------------------------------------------------------------
(* No wake-up is lost: the reader leaves the states in which it holds the
   buffer only by a Give, by exiting once running is false, or by clearing
   running (RStop); the player only by a Give or by finding running false. *)
THEOREM NoLostWakeup == Spec => []TokenNeverLost
<1> USE DEF TokenNeverLost, ReaderHolds, PlayerHolds
<1>1. Init => TokenNeverLost
  BY DEF Init
<1>2. ASSUME TokenNeverLost, TypeInv, Reader PROVE TokenNeverLost'
  <2> USE <1>2 DEF RGoto, semVars, flagVars, playerVars
  <2>1. CASE RTake BY <2>1 DEF RTake
  <2>2. CASE RDispatch BY <2>2 DEF RDispatch
  <2>3. CASE RSeek \/ RAck \/ RJudge \/ RFault \/ RRewound
    BY <2>3 DEF RSeek, RAck, RJudge, RFault, RRewound
  <2>4. CASE RFlags \/ RAtEof \/ REpoch \/ RFill \/ RFilled
    BY <2>4 DEF RFlags, RAtEof, REpoch, RFill, RFilled
  <2>5. CASE RCompare BY <2>5 DEF RCompare
  <2>6. CASE RPublish \/ RMark BY <2>6 DEF RPublish, RMark
  <2>7. CASE RGiveReady BY <2>7 DEF RGiveReady
  <2>8. CASE RStop BY <2>8 DEF RStop
  <2>9. CASE RGiveFree BY <2>9 DEF RGiveFree
  <2> QED BY <2>1, <2>2, <2>3, <2>4, <2>5, <2>6, <2>7, <2>8, <2>9 DEF Reader
<1>3. ASSUME TokenNeverLost, TypeInv, PlayerStep \/ PlayerCall
      PROVE  TokenNeverLost'
  <2> USE <1>3 DEF PGoto, semVars, flagVars, readerVars
  <2>1. CASE PDrain BY <2>1 DEF PDrain
  <2>2. CASE PEpoch \/ PCmd \/ PState BY <2>2 DEF PEpoch, PCmd, PState
  <2>3. CASE PGiveCmd BY <2>3 DEF PGiveCmd
  <2>4. CASE PTake BY <2>4 DEF PTake
  <2>5. CASE PStatus BY <2>5 DEF PStatus
  <2>6. CASE PCopy BY <2>6 DEF PCopy
  <2>7. CASE PReturn BY <2>7 DEF PReturn
  <2>8. CASE PlayerCall BY <2>8 DEF PlayerCall, PRead, PCommand
  <2> QED BY <1>3, <2>1, <2>2, <2>3, <2>4, <2>5, <2>6, <2>7, <2>8 DEF PlayerStep
<1>4. TokenNeverLost /\ UNCHANGED vars => TokenNeverLost'
  BY DEF vars, semVars, flagVars, readerVars, playerVars
<1>5. TypeInv /\ TokenNeverLost /\ [Next]_vars => TokenNeverLost'
  BY <1>2, <1>3, <1>4 DEF Next
<1> QED BY <1>1, <1>5, TypeStep, TypeInit, PTL DEF Spec

-----------------------------------------------------------------------------
(***************************************************************************)
(* Order after a settled command.  OneToken says that a settled command    *)
(* leaves a single permission to use the buffer; the rest says, for every   *)
(* place that permission can be, what the reader knows about the file.      *)
(***************************************************************************)
Posting == ppc \in {"drain", "epoch", "cmd", "state", "give_cmd"}
TargetOK ==
  Posting => /\ target.cmd \in {"RESET", "SEEK"}
             /\ target.cmd = "RESET" => target.idx = 0

OneToken ==
  /\ ~(sem_free /\ sem_ready)
  /\ sem_free \/ sem_ready => ~ReaderHolds
  /\ sem_free \/ sem_ready \/ ReaderHolds => ~PlayerHolds

(* The command not yet executed asks for the expected frame. *)
Asked == expected = IF cmd = "RESET" THEN 0 ELSE cmd_seek_frame_idx
NoFlags == ~has_error /\ ~eof_reached

(* What the reader will do when it next gets the buffer. *)
Resting ==
  /\ cmd # "NONE" => Asked /\ NoFlags
  /\ cmd = "NONE" =>
       \/ NoFlags /\ file_pos = expected
       \/ /\ has_error
          /\ status \in {"INVALID", "FAIL"}
          /\ status = "INVALID" => expected \in BadFrames
       \/ ~has_error /\ eof_reached /\ expected = NumFrames

(* What a signalled buffer says. *)
Published ==
  /\ cmd = "NONE"
  /\ status = "OK" => NoFlags /\ frame_buf = expected /\ file_pos = expected + 1
  /\ status = "INVALID" => has_error /\ expected \in BadFrames
  /\ status = "NOT_FOUND" => ~has_error /\ eof_reached /\ expected = NumFrames
  /\ status = "FAIL" => has_error \/ rpc \in {"give_fail", "stop"} \/ ~running

Fetched ==
  /\ result = "OK" => frame_buf = expected /\ file_pos = expected + 1
  /\ result = "INVALID" => expected \in BadFrames
  /\ result = "NOT_FOUND" => expected = NumFrames

ReaderKnows ==
  /\ rpc = "dispatch" /\ running => Resting
  /\ rpc = "flags" => Resting /\ cmd = "NONE"
  /\ rpc = "second" => Resting /\ cmd # "RESET"
  /\ rpc = "reset" => cmd = "RESET" /\ Asked /\ NoFlags
  /\ rpc = "seek" => cmd = "SEEK" /\ Asked /\ NoFlags
  /\ rpc \in {"ack", "judge"} =>
       /\ NoFlags
       /\ status \in {"OK", "FAIL"}
       /\ status = "OK" => file_pos = expected
  /\ rpc = "fault" => status = "FAIL"
  /\ rpc \in {"judge", "fault", "rewound", "at_eof", "epoch", "give_free"}
       => cmd = "NONE"
  /\ rpc = "rewound" => file_pos = expected
  /\ rpc \in {"give_free", "epoch", "fill", "filling"} =>
       NoFlags /\ file_pos = expected
  /\ rpc \in {"fill", "filling", "compare"} => read_epoch = reader_epoch /\ cmd = "NONE"
  /\ rpc = "at_eof" => ~has_error /\ eof_reached /\ expected = NumFrames
  /\ rpc \in {"compare", "publish"} => cmd = "NONE" /\ NoFlags /\ Fetched
  /\ rpc = "mark" => /\ cmd = "NONE" /\ NoFlags /\ Fetched
                     /\ status = result /\ result \in {"NOT_FOUND", "INVALID"}
  /\ rpc \in {"give_ready", "give_fail"} => Published

PlayerKnows ==
  /\ ppc \in {"epoch", "cmd", "state", "give_cmd"} =>
       ~ReaderHolds /\ expected = target.idx
  /\ ppc \in {"cmd", "state", "give_cmd"} => cmd_seek_frame_idx = target.idx
  /\ ppc \in {"state", "give_cmd"} => cmd = target.cmd
  /\ ppc = "give_cmd" => NoFlags
  /\ ppc \in {"status", "copy", "return"} => Published
  /\ ppc = "copy" => status = "OK" /\ err = "OK"
  /\ ppc = "return" => err = status /\ (err = "OK" => out = expected)

SettledInv ==
  settled =>
    /\ OneToken
    /\ ReaderKnows
    /\ PlayerKnows
    /\ sem_ready => Published
    /\ sem_free /\ running /\ rpc = "take" => Resting

IInv == TargetOK /\ SettledInv

LEMMA SettledReader == IInv /\ TypeInv /\ Reader => IInv'
<1> SUFFICES ASSUME IInv, TypeInv, Reader PROVE IInv'
    OBVIOUS
<1> USE DEF IInv, TargetOK, SettledInv, OneToken, ReaderKnows, PlayerKnows,
            Published, Resting, Asked, NoFlags, Fetched, ReaderHolds,
            PlayerHolds, Posting, RGoto, TypeInv, TypeOK, semVars, flagVars,
            cmdVars, readerVars, playerVars
<1>1. CASE RTake BY <1>1 DEF RTake
<1>2. CASE RDispatch
  <2>1. CASE rpc = "dispatch" BY <1>2, <2>1 DEF RDispatch
  <2>2. CASE rpc = "second" BY <1>2, <2>2 DEF RDispatch, Commands
  <2> QED BY <1>2, <2>1, <2>2 DEF RDispatch
<1>3. CASE RSeek BY <1>3 DEF RSeek
<1>4. CASE RAck BY <1>4 DEF RAck
<1>5. CASE RJudge BY <1>5 DEF RJudge
<1>6. CASE RFault BY <1>6 DEF RFault
<1>7. CASE RRewound BY <1>7 DEF RRewound
<1>8. CASE RFlags BY <1>8 DEF RFlags
<1>9. CASE RAtEof BY <1>9 DEF RAtEof
<1>10. CASE REpoch BY <1>10 DEF REpoch
<1>11. CASE RFill BY <1>11 DEF RFill
<1>12. CASE RFilled BY <1>12 DEF RFilled, Frames
<1>13. CASE RCompare BY <1>13 DEF RCompare
<1>14. CASE RPublish BY <1>14 DEF RPublish
<1>15. CASE RMark BY <1>15 DEF RMark
<1>16. CASE RGiveReady BY <1>16 DEF RGiveReady
<1>17. CASE RStop BY <1>17 DEF RStop
<1>18. CASE RGiveFree BY <1>18 DEF RGiveFree
<1> QED BY <1>1, <1>2, <1>3, <1>4, <1>5, <1>6, <1>7, <1>8, <1>9, <1>10, <1>11, <1>12, <1>13, <1>14, <1>15, <1>16, <1>17, <1>18 DEF Reader

LEMMA SettledPlayer == IInv /\ TypeInv /\ (PlayerStep \/ PlayerCall) => IInv'
<1> SUFFICES ASSUME IInv, TypeInv, PlayerStep \/ PlayerCall PROVE IInv'
    OBVIOUS
<1> USE DEF IInv, TargetOK, SettledInv, OneToken, ReaderKnows, PlayerKnows,
            Published, Resting, Asked, NoFlags, Fetched, ReaderHolds,
            PlayerHolds, Posting, PGoto, AfterRead, TypeInv, TypeOK, semVars,
            flagVars, cmdVars, readerVars, playerVars
<1>1. CASE PDrain BY <1>1 DEF PDrain
<1>2. CASE PEpoch BY <1>2 DEF PEpoch
<1>3. CASE PCmd BY <1>3 DEF PCmd
<1>4. CASE PState BY <1>4 DEF PState
<1>5. CASE PGiveCmd BY <1>5 DEF PGiveCmd
<1>6. CASE PTake BY <1>6 DEF PTake
<1>7. CASE PStatus BY <1>7 DEF PStatus
<1>8. CASE PCopy BY <1>8 DEF PCopy
<1>9. CASE PReturn BY <1>9 DEF PReturn, Frames, Statuses
<1>10. CASE PlayerCall BY <1>10 DEF PlayerCall, PRead, PCommand
<1> QED BY <1>1, <1>2, <1>3, <1>4, <1>5, <1>6, <1>7, <1>8, <1>9, <1>10 DEF PlayerStep

(* After a settled command the frames come back in order, for a file of any
   length, any bad frames, any I/O fault and any number of earlier commands
   that raced with the reader. *)
THEOREM InOrderAfterSettledCommand == Spec => []SettledInOrder
<1>1. Init => IInv
  BY DEF Init, IInv, TargetOK, Posting, SettledInv, OneToken, ReaderKnows,
         PlayerKnows, Published, Resting, Asked, NoFlags, ReaderHolds, PlayerHolds
<1>2. IInv /\ UNCHANGED vars => IInv'
  BY DEF IInv, TargetOK, SettledInv, OneToken, ReaderKnows, PlayerKnows,
         Published, Resting, Asked, NoFlags, Fetched, ReaderHolds, PlayerHolds,
         Posting, vars, semVars, flagVars, cmdVars, readerVars, playerVars
<1>3. TypeInv /\ IInv /\ [Next]_vars => IInv'
  BY <1>2, SettledReader, SettledPlayer DEF Next
<1>4. TypeInv /\ [Next]_vars => TypeInv'
  BY TypeStep
<1>5. IInv => SettledInOrder
  BY DEF IInv, SettledInv, PlayerKnows, Published, SettledInOrder
<1> QED BY TypeInit, <1>1, <1>3, <1>4, <1>5, PTL DEF Spec

=============================================================================
