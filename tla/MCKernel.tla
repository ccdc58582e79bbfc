------------------------------ MODULE MCKernel -----------------------------
(* Small instances of Kernel.                                              *)
EXTENDS Kernel

\* Once a push has been overtaken the properties about messages say nothing
\* any more: such states are not explored further.
Unraced == ~raced
=============================================================================
