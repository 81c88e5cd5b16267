------------------------------ MODULE FileSize ------------------------------
(***************************************************************************)
(* The size of a file as ftpc announces it to ftps, in every version of    *)
(* the two (lab2, lab3, project1): strncpy copies the four bytes of an int *)
(* and ends at the first that is zero; the rest of the buffer is zero.     *)
(* ftps copies them into an int again.                                     *)
(***************************************************************************)
EXTENDS Integers, FiniteSetsExt

CONSTANTS Base,       \* 256, the values of a byte
          BuffSize,   \* BUFFSIZE, 1000 bytes
          Sizes       \* the sizes of the files

SizeBytes == 4   \* FILE_BYTES_SIZE

(* Little-endian: byte 0 is the lowest. *)
Weight(k) == <<1, Base, Base * Base, Base * Base * Base,
               Base * Base * Base * Base>>[k + 1]

ASSUME FileSizeAssumption == /\ Base \in Nat /\ Base >= 2
                             /\ BuffSize \in Nat \ {0}
                             /\ Sizes \subseteq 0 .. Weight(SizeBytes) - 1

Byte(n, k) == (n \div Weight(k)) % Base

(* The bytes of n before the first zero one, as an int. *)
Copied(n) ==
  LET ends == {k \in 0 .. SizeBytes - 1 : Byte(n, k) = 0} \cup {SizeBytes}
  IN  n % Weight(Min(ends))

(* An int is signed: with the highest bit set it is negative. *)
Announced(n) == IF 2 * Copied(n) >= Weight(SizeBytes)
                THEN Copied(n) - Weight(SizeBytes) ELSE Copied(n)

(* What a loop that runs while the int is positive waits for. *)
Awaited(n) == IF Announced(n) > 0 THEN Announced(n) ELSE 0

(* No byte below the highest one that counts is zero, and the highest bit  *)
(* is not set: 255 and 257 are announced as they are, 256 as 0, 65537 as 1 *)
(* and a size from 2^31 on as a negative number.                           *)
Announceable(n) ==
  /\ \A k \in 0 .. SizeBytes - 1 : n >= Weight(k) => Byte(n, k) # 0
  /\ 2 * n < Weight(SizeBytes)
=============================================================================
