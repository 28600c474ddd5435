---------------------------- MODULE MCMuxbusDoc ----------------------------
(* TLC instance of the register accesses for what the comment of            *)
(* zpu_muxbus_poke16 says of them.                                          *)
EXTENDS Muxbus

\* "Function only returns when data is successfully written to the MUXBUS
\* register" (src/src/tszpufifo.c:350-351).
PokeReturnsWritten == (cpc = "return" /\ op \in Pokes) => regs[op.adr] = op.dat
=============================================================================
