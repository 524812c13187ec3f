---------------------------- MODULE MC_GpuLease ----------------------------
\* Two shells and one or two runs that the first shell starts
EXTENDS GpuLease

CONSTANTS s1, s2, r1, r2
ParentOf == [r \in Runs |-> s1]
=============================================================================
