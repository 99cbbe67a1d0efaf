-------------------------- MODULE EpollArithProofs --------------------------
(***************************************************************************)
(* What the arithmetic of EpollArith computes, for every width of unsigned *)
(* int, every number of epoll sets and every limit on open files.          *)
(***************************************************************************)
EXTENDS EpollArith, TLAPS

\* The conversion to unsigned int keeps a number that is small enough.
LEMMA SmallRemainder == ASSUME NEW a \in Nat, NEW m \in Nat, a < m PROVE a % m = a
  OBVIOUS

\* A negative number wraps around once: (unsigned int)(-a) is UIntSize - a.
LEMMA MinusRemainder ==
  ASSUME NEW x \in Int, NEW m \in Nat, x < 0, -m <= x PROVE x % m = m + x
  OBVIOUS

(* cycle.c: (unsigned int)(i - 1) % ~(num_efd - 1), which looks like a     *)
(* mask and is none, is the index of the previous set in the cycle for     *)
(* every number of sets up to half of what an unsigned int can hold.       *)
THEOREM PrevIndexCyclic ==
  ASSUME NEW n \in Nat \ {0}, 2 * n <= UIntSize, NEW i \in 0 .. n - 2
  PROVE  PrevIndex(i, n) = IF i = 0 THEN n - 1 ELSE i - 1
<1>1. UIntSize \in Nat /\ n < UIntSize /\ UIntSize - n \in Nat /\ n <= UIntSize - n
  BY UIntAssumption
<1>2. Complement(n - 1) \in Int /\ Complement(n - 1) = -n
  BY DEF Complement
<1>3. Unsigned(Complement(n - 1)) = UIntSize - n
  BY <1>1, <1>2, MinusRemainder DEF Unsigned
<1>4. CASE i = 0
  <2>1. Unsigned(i - 1) = UIntSize - 1
    <3>1. i - 1 \in Int /\ i - 1 < 0 /\ -UIntSize <= i - 1
      BY <1>1, <1>4
    <3>2. (i - 1) % UIntSize = UIntSize + (i - 1)
      BY <1>1, <3>1, MinusRemainder
    <3> QED BY <1>1, <1>4, <3>2 DEF Unsigned
  <2>2. UIntSize - 1 = 1 * (UIntSize - n) + (n - 1) /\ n - 1 \in 0 .. UIntSize - n - 1
    BY <1>1
  <2>3. (UIntSize - 1) % (UIntSize - n) = n - 1
    BY <1>1, <2>2
  <2> QED BY <1>3, <1>4, <2>1, <2>3 DEF PrevIndex
<1>5. CASE i # 0
  <2>1. i - 1 \in Nat /\ i - 1 < UIntSize /\ i - 1 < UIntSize - n
    BY <1>1, <1>5
  <2>2. Unsigned(i - 1) = i - 1
    BY <1>1, <2>1, SmallRemainder DEF Unsigned
  <2>3. (i - 1) % (UIntSize - n) = i - 1
    BY <1>1, <2>1, SmallRemainder
  <2> QED BY <1>3, <1>5, <2>2, <2>3 DEF PrevIndex
<1> QED BY <1>4, <1>5

\* num_sk &= ~1 and the cap at 1000000 keep a number even and do not raise it.
LEMMA RoundedDown ==
  ASSUME NEW n \in Int
  PROVE  Rounded(n) \in Int /\ Rounded(n) % 2 = 0 /\ Rounded(n) <= n
  BY DEF Rounded, Largest

(* sk10k.c: the default number of sockets is even, so that the loop that   *)
(* opens them in pairs stays inside its arrays, and together with the      *)
(* files that are open and the epoll set it stays below the limit.  If     *)
(* scandir() could not count those files it still does when they and the   *)
(* epoll set take up no more than half of the limit.                       *)
THEOREM DefaultFits ==
  ASSUME NEW cur \in Nat, NEW fds \in Nat
  PROVE  LET n == DefaultNumSk(cur, fds)
             m == UncountedNumSk(cur)
         IN /\ n % 2 = 0 /\ (n > 0 => n + fds + 1 <= cur)
            /\ m % 2 = 0 /\ (2 * (fds + 1) <= cur => m + fds + 1 <= cur)
<1> DEFINE half == (cur \div 2) - ((fds + 1 + 1) \div 2)
<1>1. half \in Int /\ 2 * half <= cur - fds - 1
  OBVIOUS
<1>2. Rounded(half) \in Int /\ Rounded(half) % 2 = 0 /\ Rounded(half) <= half
  BY <1>1, RoundedDown
<1>3. cur \div 2 \in Int /\ 2 * (cur \div 2) <= cur
  OBVIOUS
<1>4. /\ Rounded(cur \div 2) \in Int /\ Rounded(cur \div 2) % 2 = 0
      /\ Rounded(cur \div 2) <= cur \div 2
  BY <1>3, RoundedDown
<1> QED
  BY <1>1, <1>2, <1>3, <1>4 DEF DefaultNumSk, UncountedNumSk
=============================================================================
