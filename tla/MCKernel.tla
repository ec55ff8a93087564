------------------------------ MODULE MCKernel ------------------------------
EXTENDS KernelMain, MCPmm, MCContext
=============================================================================
