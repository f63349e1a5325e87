---------------------------- MODULE OrderedDict ----------------------------
(***************************************************************************)
(* The keys of a Python OrderedDict in their order, as a sequence in which *)
(* no key comes twice: what popping keys and moving one to the end do.     *)
(* RouterFeed uses Without for a pool some backends of which are gone.     *)
(***************************************************************************)
EXTENDS Integers, Sequences, Functions

\* pop(key, None) for every key of gone.
Without(keys, gone) ==
    LET left[i \in 0..Len(keys)] ==
            IF i = 0 THEN <<>>
            ELSE IF keys[i] \in gone THEN left[i - 1]
            ELSE Append(left[i - 1], keys[i])
    IN left[Len(keys)]

\* A key that is used stays where it is: first in, first out.
LeftInPlace(keys, k) == keys

\* move_to_end(k)
MovedToEnd(keys, k) == Append(Without(keys, {k}), k)
=============================================================================
