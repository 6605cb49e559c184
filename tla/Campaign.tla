------------------------------ MODULE Campaign ------------------------------
(***************************************************************************)
(* run_tests.sh: for every test size three runs over all events, repeated  *)
(* until the averages of the three runs are close enough.                  *)
(*                                                                         *)
(* n_body is external here: it appends a line with its time to the events  *)
(* file of the run, or fails and appends nothing; its exit status is not   *)
(* looked at. The average of a run is any of Times when there is a line to *)
(* average. awk stops at the division by zero when there is none, and then *)
(* the line of times stays open for what is written next.                  *)
(***************************************************************************)
EXTENDS Integers, Sequences, TLC

CONSTANTS Sizes,        \* number of test sizes
          NUM_EVENTS,
          Times         \* the averages that can come out, as awk prints them

ASSUME CampaignAssumption == Sizes \in Nat /\ NUM_EVENTS \in Nat /\ Times \subseteq Nat \ {0}

Runs == 3

VARIABLES size_index, run, test_index,
          files     \* the directory of each test: NR of the events files, times, times.ordered

vars == <<size_index, run, test_index, files>>

\* times is its finished lines and the fields of the one that has no end yet.
NewDir == [events |-> [r \in 1..Runs |-> 0], lines |-> <<>>, rest |-> <<>>, ordered |-> <<>>]

Init ==
  /\ size_index = 0 /\ run = 0 /\ test_index = 0
  /\ files = [s \in 0..(Sizes - 1) |-> NewDir]

Dir == files[size_index]

-----------------------------------------------------------------------------
(* sort -t' ' -k2 compares what follows the first field as text. A space is *)
(* less than a digit, so that text is compared field by field, and a field  *)
(* digit by digit.                                                          *)

Digits[n \in Nat] == IF n < 10 THEN <<n>> ELSE Append(Digits[n \div 10], n % 10)

\* The first place where a and b differ decides, or that a ends there.
Before(a, b, Less(_, _)) ==
  \E n \in 0..Len(a) :
    /\ n < Len(b) /\ \A k \in 1..n : a[k] = b[k]
    /\ n < Len(a) => Less(a[n + 1], b[n + 1])

FieldBefore(x, y) == Before(Digits[x], Digits[y], LAMBDA c, d : c < d)
LineBefore(k, l) == Before(Tail(k), Tail(l), FieldBefore)

Orders(n) == {p \in [1..n -> 1..n] : \A k, l \in 1..n : p[k] = p[l] => k = l}

\* Lines with the same time come in some order; nothing looks at which it is.
Sorted(lines) ==
  LET order == CHOOSE p \in Orders(Len(lines)) :
                 \A k, l \in 1..Len(lines) : LineBefore(lines[p[k]], lines[p[l]]) => k < l
  IN  [k \in 1..Len(lines) |-> lines[order[k]]]

\* The check of the margin by awk: res stays 1 when no line has a $2 more than
\* 0.5 above that of the first; a field that is not there counts as 0, and a
\* division by it ends awk without a result.
Second(line) == IF Len(line) < 2 THEN 0 ELSE line[2]

\* A slip in WithinMargin: equal times are too far apart.
WithinMarginStrict(lines) ==
  \A k \in 2..Len(lines) : 2 * (Second(lines[k]) - Second(lines[1])) < 0

WithinMargin(lines) ==
  \A k \in 2..Len(lines) :
    /\ Second(lines[1]) # 0
    /\ 2 * (Second(lines[k]) - Second(lines[1])) <= Second(lines[1])

-----------------------------------------------------------------------------
\* Every attempt starts with an empty directory.
Clear ==
  /\ size_index < Sizes /\ run = 0
  /\ files' = [files EXCEPT ![size_index] = NewDir]
  /\ run' = 1 /\ test_index' = 0 /\ UNCHANGED size_index

Test ==
  /\ run \in 1..Runs /\ test_index < NUM_EVENTS
  /\ \E printed \in {0, 1} : files' = [files EXCEPT ![size_index].events[run] = @ + printed]
  /\ test_index' = test_index + 1 /\ UNCHANGED <<size_index, run>>

\* echo -n, awk and sort after the last event of a run.
Recorded(dir, fields) ==
  IF Len(fields) = 1
  THEN [dir EXCEPT !.rest = @ \o fields, !.ordered = Sorted(Append(dir.lines, dir.rest \o fields))]
  ELSE LET lines == Append(dir.lines, dir.rest \o fields)
       IN  [dir EXCEPT !.lines = lines, !.rest = <<>>, !.ordered = Sorted(lines)]

Average ==
  /\ run \in 1..Runs /\ test_index = NUM_EVENTS
  /\ \E fields \in IF Dir.events[run] = 0 THEN {<<run>>} ELSE {<<run, t>> : t \in Times} :
       files' = [files EXCEPT ![size_index] = Recorded(@, fields)]
  /\ run' = run + 1 /\ test_index' = 0 /\ UNCHANGED size_index

Decide ==
  /\ run = Runs + 1
  /\ size_index' = IF WithinMargin(Dir.ordered) THEN size_index + 1 ELSE size_index
  /\ run' = 0 /\ UNCHANGED <<test_index, files>>

Next == Clear \/ Test \/ Average \/ Decide

\* The script goes on as long as n_body ends.
Spec == Init /\ [][Next]_vars /\ WF_vars(Next)

-----------------------------------------------------------------------------
(* What is promised.                                                       *)

Accepted == {files[s] : s \in 0..(size_index - 1)}
Measured(dir) == \A r \in 1..Runs : dir.events[r] > 0
Averages(dir) == {dir.lines[k][2] : k \in DOMAIN dir.lines}

\* No two averages of an accepted test are more than 5 % apart ("if result is true,
\* 5% error margin is satisfied").
FivePercent ==
  \A dir \in Accepted :
    Measured(dir) => \A x, y \in Averages(dir) : 20 * (y - x) <= x

\* The campaign ends if from some time on every run gives the same average: an
\* attempt that was rejected leaves nothing behind that could fail the next.
Calm ==
  \A s \in DOMAIN files :
    /\ files'[s].rest = <<>>
    /\ Averages(files'[s]) \ Averages(files[s]) \subseteq {CHOOSE t \in Times : TRUE}
Settles == <>[][Calm]_vars => <>(size_index = Sizes)
=============================================================================
