---------------------------- MODULE MCBufferUser ----------------------------
(* TLC instance of BufferUser: two managed sizes and one the pool was not   *)
(* built for, pools of two blocks each, so that every branch of allocate    *)
(* and deallocate is taken.                                                 *)
EXTENDS BufferUser
=============================================================================
