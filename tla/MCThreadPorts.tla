--------------------------- MODULE MCThreadPorts ------------------------------
\* The ports with kthreads, over the cached client.
EXTENDS FileClient, ThreadPorts

Named(n, P) == {[port |-> n, code |-> c] : c \in P}
MCSuites ==
    Named(133, Port133) \cup Named(247, Port247) \cup Named(340, Port340)
    \cup Named(344, Port344) \cup Named(346, Port346) \cup Named(364, Port364)
    \cup Named(391, Port391) \cup Named(438, Port438) \cup Named(446, Port446)
    \cup Named(464, Port464) \cup Named(524, Port524) \cup Named(591, Port591)
    \cup Named(615, Port615) \cup Named(761, Port761)
MCFiles == {"a"}
===============================================================================
