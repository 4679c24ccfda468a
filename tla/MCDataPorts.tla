---------------------------- MODULE MCDataPorts -------------------------------
\* The sequential ports over the cached client.
EXTENDS FileClient, DataPorts, SpacePorts

Named(n, P) == {[port |-> n, code |-> c] : c \in P}
MCSuites ==
    Named(1, Port001) \cup Named(7, Port007) \cup Named(14, Port014)
    \cup Named(29, Port029) \cup Named(30, Port030) \cup Named(69, Port069)
    \cup Named(74, Port074) \cup Named(75, Port075) \cup Named(80, Port080)
    \cup Named(125, Port125) \cup Named(129, Port129) \cup Named(130, Port130)
    \cup Named(132, Port132) \cup Named(135, Port135) \cup Named(141, Port141)
    \cup Named(169, Port169) \cup Named(246, Port246) \cup Named(248, Port248)
    \cup Named(249, Port249) \cup Named(393, Port393) \cup Named(406, Port406)
    \cup Named(412, Port412) \cup Named(428, Port428) \cup Named(443, Port443)
    \cup Named(450, Port450) \cup Named(609, Port609) \cup Named(638, Port638)
    \cup Named(639, Port639) \cup Named(647, Port647) \cup Named(708, Port708)
    \cup Named(729, Port729) \cup Named(749, Port749) \cup Named(763, Port763)
    \cup Named(86, Port086) \cup Named(124, Port124) \cup Named(213, Port213)
    \cup Named(214, Port214) \cup Named(285, Port285) \cup Named(286, Port286)
    \cup Named(308, Port308) \cup Named(394, Port394) \cup Named(420, Port420)
    \cup Named(430, Port430) \cup Named(431, Port431) \cup Named(432, Port432)
    \cup Named(433, Port433) \cup Named(434, Port434) \cup Named(439, Port439)
    \cup Named(448, Port448) \cup Named(490, Port490) \cup Named(525, Port525)
    \cup Named(539, Port539) \cup Named(565, Port565) \cup Named(567, Port567)
    \cup Named(568, Port568) \cup Named(706, Port706)
MCFiles == {"a", "b", "c", "d"}
===============================================================================
