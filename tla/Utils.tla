---- MODULE Utils ----
(***************************************************************************)
(* The integer helpers of src/src/utils.h and of the C++ library that the  *)
(* algorithms use to divide a range of elements into blocks.               *)
(***************************************************************************)
EXTENDS Integers

(* x / y * y and (x + y - 1) / y * y, with the truncating division of C on *)
(* non-negative operands.                                                  *)
roundDown(x, y) == (x \div y) * y
roundUp(x, y)   == ((x + y - 1) \div y) * y

(* std::min and std::max, and the min of OpenCL C.                         *)
MinOf(a, b) == IF b < a THEN b ELSE a
MaxOf(a, b) == IF a < b THEN b ELSE a

====
