------------------------------ MODULE MCSwaRadix ------------------------------
EXTENDS SwaRadix

Asks(tokens, n) == [ids |-> tokens, out |-> n]
Base(n) == Asks(<<1, 2, 3, 4, 5>>, n)

\* Another prompt with the same head, that goes a window further on its own.
Fork(n) == Asks(<<1, 2, 6, 7>>, n)

\* One that ends less than a window after it leaves the base.
Near(n) == Asks(<<1, 2, 6>>, n)

\* One that needs more than a batch, and one that takes what the pool has left.
Long(n) == Asks([i \in 1 .. 16 |-> 9 + i], n)
Filling(n) == Asks([i \in 1 .. 12 |-> 9 + i], n)

ApartArrivals == {<<Base(6), Long(1), Fork(2)>>, <<Base(2), Base(3), Fork(2)>>,
                  <<Base(2), Fork(3), Long(1)>>, <<Base(3), Long(2), Base(2)>>,
                  <<Long(2), Fork(2), Base(5)>>, <<Base(3), Filling(3), Fork(1)>>,
                  <<Fork(3), Base(4), Base(2)>>, <<Base(6), Base(2), Filling(1)>>}
CloseArrivals == {<<Base(2), Base(2), Near(2)>>}
=============================================================================
