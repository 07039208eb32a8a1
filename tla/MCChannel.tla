----------------------------- MODULE MCChannel -----------------------------
(* Channel a's observers write to both channels and notify b, b's notify a,*)
(* which closes a cycle; two handlers come to a and go.                    *)
(* A zero past the end of the array makes it grow in silence.              *)
EXTENDS Channel

CONSTANTS a, b, left, mobile, t1, t2

MCSubjects  == {a, b}
MCHandlers  == {left, mobile}
MCThreads   == {t1, t2}
MCMovable   == {<<a, mobile>>, <<a, left>>}
Byte(x, at) == [data |-> <<x>>, offset |-> at]
MCWrites    == {Byte(0, 1), Byte(1, 1), Byte(1, 2)}
MCBytes     == {0, 1}
MCWriting   == {<<a, a>>, <<a, b>>}
MCNotifying == {<<a, b>>, <<b, a>>}
MCArray     == <<0>>
MCObservers == [c \in Subjects |-> <<left>>]
=============================================================================
