----------------------------- MODULE EpollArith -----------------------------
(***************************************************************************)
(* The arithmetic of the epoll test programs: the index of the previous    *)
(* epoll set of a cycle, computed in unsigned int, and the number of       *)
(* sockets that fit below the limit on open files.                         *)
(***************************************************************************)
EXTENDS Integers

CONSTANT UIntSize     \* number of values of an unsigned int

ASSUME UIntAssumption == UIntSize \in Nat \ {0}

\* C's (unsigned int) and ~ on an int.
Unsigned(x) == x % UIntSize
Complement(x) == -x - 1

\* Mutant: the complement masks with one set too few.
PrevIndexShort(i, n) == Unsigned(i - 1) % Unsigned(Complement(n - 2))

(* j = (unsigned int)(i - 1) % ~(num_efd - 1) of cycle.c *)
PrevIndex(i, n) == Unsigned(i - 1) % Unsigned(Complement(n - 1))

Largest == 1000000

\* num_sk &= ~1, and not too many.
Rounded(n) == LET even == n - (n % 2) IN IF even > Largest THEN Largest ELSE even

(* set_default_num_sk() with fds open files, to which scandir() adds the   *)
(* directory it reads: half of the limit less half of those.               *)
DefaultNumSk(cur, fds) == Rounded((cur \div 2) - ((fds + 1 + 1) \div 2))

(* set_default_num_sk() when scandir() fails: half of the limit.           *)
UncountedNumSk(cur) == Rounded(cur \div 2)

(* -s NUM: pairs of sockets, the limit itself if that is too many. *)
OptionNumSk(cur, pairs) == IF 2 * pairs >= cur THEN cur ELSE 2 * pairs
=============================================================================
