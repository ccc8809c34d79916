----------------------------- MODULE MCCommPipe -----------------------------
(* A small instance of CommPipe: a writer that sends buffered words and    *)
(* no_buffer words through a pipe of three free slots.                     *)
EXTENDS CommPipe
============================================================================
