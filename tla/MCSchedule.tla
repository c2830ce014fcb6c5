----------------------------- MODULE MCSchedule -----------------------------
(***************************************************************************)
(* Workloads with a constant rate and with silent phases first, last and   *)
(* in between, repeated or not, stopped by a count or by a duration.       *)
(* Times have four significant binary digits where those of the code have  *)
(* 53: up to 16 all is exact, from there on every other number is a time.  *)
(***************************************************************************)
EXTENDS Schedule, TLC

Digits == 4

\* The distance of neighbouring times at x.
Spacing(x) == CHOOSE u \in {2^e : e \in 0..2 * Digits} :
                x < u * 2^Digits /\ (u = 1 \/ u * 2^(Digits - 1) <= x)

\* The time nearest to a / b, the even one of two.
Nearest(a, b) ==
  LET u == Spacing(a \div b)
      m == a \div (b * u)
      r == a % (b * u)
  IN  IF 2 * r > b * u \/ (2 * r = b * u /\ m % 2 = 1) THEN (m + 1) * u ELSE m * u

MCRound(x) == IF x < 0 THEN -Nearest(-x, 1) ELSE Nearest(x, 1)

\* The quotient is rounded before it is cut.
MCQuot(a, b) == Nearest(a * 2^Digits, b) \div 2^Digits

MCBlur(x) == IF x < 2^Digits THEN 0 ELSE 2

Phase(d, p) == [duration |-> d, positive |-> p]

PhaseLists ==
  {<<>>, <<Phase(3, TRUE)>>, <<Phase(2, FALSE)>>,
   <<Phase(1, FALSE), Phase(2, TRUE)>>,
   <<Phase(5, TRUE), Phase(6, FALSE)>>,
   <<Phase(4, FALSE), Phase(5, TRUE)>>,
   <<Phase(3, FALSE), Phase(14, FALSE), Phase(5, TRUE)>>,
   <<Phase(3, TRUE), Phase(5, FALSE), Phase(15, TRUE)>>}

Stops == {[count |-> 1, horizon |-> 0], [count |-> 2, horizon |-> 0],
          [count |-> 3, horizon |-> 0], [count |-> 4, horizon |-> 0],
          [count |-> 0, horizon |-> 7], [count |-> 0, horizon |-> 22]}

Prefixes == {[sharing |-> "none", size |-> 0], [sharing |-> "all", size |-> None],
             [sharing |-> "some", size |-> 2], [sharing |-> "some", size |-> 0],
             [sharing |-> "all", size |-> -2]}

MCWorkloads ==
  {[type |-> ty, phases |-> p, repeat |-> r, count |-> s.count, horizon |-> s.horizon,
    sharing |-> g.sharing, group_size |-> g.size] :
     ty \in {"open-loop-poisson"}, p \in PhaseLists, r \in BOOLEAN, s \in Stops, g \in Prefixes}
  \cup
  {[type |-> "closed-loop", phases |-> <<>>, repeat |-> FALSE, count |-> 1, horizon |-> 0,
    sharing |-> "none", group_size |-> None]}

\* Repetition is declared for phases only (validateArrival).
MCValid == {x \in MCWorkloads : x.phases = <<>> => ~x.repeat}

=============================================================================
