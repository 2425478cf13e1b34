----------------------------- MODULE ShadowStack -----------------------------
(***************************************************************************)
(* The shadow call stack (dap_server.cpp:55-122) and the stack trace made  *)
(* from it.  A stack is a sequence of frames, the current one last.        *)
(***************************************************************************)
EXTENDS SymTab, Sequences

CONSTANT DefaultLevels   \* 20: frames of a stack trace that asks for none

ASSUME LevelsAssumption == DefaultLevels \in Nat \ {0}

ShadowFrame(t, pc) == [func |-> LookupSymbol(t, pc), pc |-> pc, loc |-> LookupLine(t, pc)]

\* The frames of a function; an address without a symbol is in none.
FramesOf(s, func) == {i \in DOMAIN s : func # NoName /\ s[i].func = func}

BugAlwaysPush(s, frame) == Append(s, frame)

\* ShadowStackUpdate.  A stop in the function of the top frame, or of the
\* nearest frame below it, cuts the stack to that frame and refreshes it; any
\* other stop, the first one included, pushes a frame.
ShadowStackUpdate(s, frame) ==
  LET own == FramesOf(s, frame.func)
  IN  IF own = {} THEN Append(s, frame) ELSE Append(SubSeq(s, 1, Max(own) - 1), frame)

\* ShadowStackReset, then ShadowStackUpdate.
ShadowStackRestart(frame) == ShadowStackUpdate(<<>>, frame)

BugPageEnd(s, start, levels) == IF start + levels < Len(s) THEN start + levels - 1 ELSE Len(s)

PageEnd(s, start, levels) == IF start + levels < Len(s) THEN start + levels ELSE Len(s)

\* HandleStackTrace: the frames from the top, from startFrame on, numbered
\* from 1; without a shadow stack the frame of the PC, whatever the page.
StackTrace(s, frame, startFrame, levels) ==
  LET start == IF startFrame < 0 THEN 0 ELSE startFrame
      count == IF levels <= 0 THEN DefaultLevels ELSE levels
      from  == IF start > Len(s) THEN Len(s) ELSE start
      end   == PageEnd(s, from, count)
  IN  IF s = <<>>
      THEN <<[id |-> 1, frame |-> frame]>>
      ELSE [k \in 1 .. end - from |->
              [id |-> from + k, frame |-> s[Len(s) - (from + k - 1)]]]
=============================================================================
