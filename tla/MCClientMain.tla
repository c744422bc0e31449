---------------------------- MODULE MCClientMain ----------------------------
(* TLC instances of ClientMain.                                             *)
EXTENDS ClientMain

\* Up to eight pages for up to four threads: divisible or not, and fewer pages
\* than threads.  With eight bits, 64 words are enough for the product to wrap.
SmallBuilds == [num_requests : 0..8, client_threads : 1..4, page_size : {1, 64}]

=============================================================================
