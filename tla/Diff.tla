--------------------------------- MODULE Diff ---------------------------------
(***************************************************************************)
(* The difference that a report shows between the expected and the actual  *)
(* text of a stream (src/base/diff.cc), on texts that are already split    *)
(* into lines: a breadth-first search over the pairs of positions reached, *)
(* one removed or added line for each generation, equal lines for free.    *)
(* Positions count from 0 and lines from 1: the line at position p is      *)
(* lines[p + 1].                                                           *)
(***************************************************************************)
EXTENDS Naturals, SequencesExt

\* changeset::at: an empty line where there is none
At(p, lines) == IF p < Len(lines) THEN lines[p + 1] ELSE <<>>

Origin == [after |-> 0, before |-> 0, change |-> <<>>]

RemoveLine(step) ==
  [step EXCEPT !.before = @ + 1,
               !.change = Append(@, [remove |-> TRUE, index |-> step.before])]
AddLine(step) ==
  [step EXCEPT !.after = @ + 1,
               !.change = Append(@, [remove |-> FALSE, index |-> step.after])]

Spot(step) == <<step.after, step.before>>
Corner(before, after) == <<Len(after), Len(before)>>

\* The code keeps the number of changes of the first step at each place and compares
\* with it.  Generations go by that number, so a place once reached is never improved
\* on and it is enough to know which were reached.
MaySlide(step, reached, before, after) ==
  /\ step.after < Len(after)
  /\ step.after < Len(before)   \* not step.before
  /\ step.before <= Len(before)
  /\ Spot(step) \notin reached
  /\ At(step.after, after) = At(step.before, before)

RECURSIVE Slide(_, _, _, _)
Slide(step, reached, before, after) ==
  IF MaySlide(step, reached, before, after)
    THEN Slide([step EXCEPT !.after = @ + 1, !.before = @ + 1],
               reached \cup {Spot(step)}, before, after)
    ELSE [step |-> step, reached |-> reached]

\* One step of a generation: what it reached, the steps that follow it, and the
\* solution if it is in the corner.
Visit(st, first, before, after) ==
  LET slid == Slide(first, st.reached, before, after)
      step == slid.step
      stays == [st EXCEPT !.reached = slid.reached]
  IN  CASE st.found # {} -> st
        [] Spot(step) \in slid.reached -> stays
        [] Spot(step) = Corner(before, after) -> [stays EXCEPT !.found = {step}]
        [] step.after > Len(after) \/ step.before > Len(before) -> stays
        [] OTHER -> [stays EXCEPT !.reached = @ \cup {Spot(step)},
                                  !.next = @ \o <<RemoveLine(step), AddLine(step)>>]

\* find_route: no solution when a generation is empty
RECURSIVE Generations(_, _, _, _)
Generations(generation, reached, before, after) ==
  LET end == FoldLeft(LAMBDA st, step : Visit(st, step, before, after),
                      [reached |-> reached, next |-> <<>>, found |-> {}], generation)
  IN  IF end.found # {} THEN (CHOOSE step \in end.found : TRUE).change
      ELSE IF end.next = <<>> THEN <<>>
      ELSE Generations(end.next, end.reached, before, after)

FindRoute(before, after) == Generations(<<Origin>>, {}, before, after)

-----------------------------------------------------------------------------

\* The lines kept in front of a change, from position p of before
KeptLines(before, p, count) == [k \in 1 .. count |-> <<" ", before[p + k]>>]

ShowChangeInOne(st, op, before, after) ==  \* mutant: only the position of its text moves
  LET index == IF op.remove THEN st.before ELSE st.after
      count == IF op.index > index THEN op.index - index ELSE 0
      line == IF op.remove THEN <<"-", before[op.index + 1]>> ELSE <<"+", after[op.index + 1]>>
  IN  [before |-> IF op.remove THEN op.index + 1 ELSE st.before,
       after |-> IF op.remove THEN st.after ELSE op.index + 1,
       lines |-> Append(st.lines \o KeptLines(before, st.before, count), line)]

\* The loop of diff(): lines up to the change, counted in the text it is about, are
\* kept, and both positions move along.
ShowChange(st, op, before, after) ==
  LET index == IF op.remove THEN st.before ELSE st.after
      count == IF op.index > index THEN op.index - index ELSE 0
      line == IF op.remove THEN <<"-", before[op.index + 1]>> ELSE <<"+", after[op.index + 1]>>
  IN  [before |-> IF op.remove THEN op.index + 1 ELSE st.before + count,
       after |-> IF op.remove THEN st.after + count ELSE op.index + 1,
       lines |-> Append(st.lines \o KeptLines(before, st.before, count), line)]

DiffLines(before, after) ==
  LET end == FoldLeft(LAMBDA st, op : ShowChange(st, op, before, after),
                      [before |-> 0, after |-> 0, lines |-> <<>>], FindRoute(before, after))
  IN  end.lines \o KeptLines(before, end.before, Len(before) - end.before)

\* last_enter: a newline at the end shows as a backslash and an n on the last line, so
\* that texts that differ in it differ in their last line.
LastEnter(lines) ==
  IF Len(lines) > 1 /\ Last(lines) = <<>>
    THEN LET kept == Front(lines) IN Front(kept) \o <<Append(Last(kept), "\\n")>>
    ELSE lines
=============================================================================
