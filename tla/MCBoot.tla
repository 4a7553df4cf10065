------------------------------- MODULE MCBoot -------------------------------
\* Serial ports at the usual places and where isapnp reads; one disk with a
\* disklabel, one with a DOS partition before a label that uses letter i.
EXTENDS Boot

MCTables ==
  {<<[typ |-> "label", used |-> <<0, 3>>], [typ |-> "dos", used |-> <<>>]>>,
   <<[typ |-> "dos", used |-> <<>>], [typ |-> "extended", used |-> <<>>],
     [typ |-> "label", used |-> <<0, 8>>], [typ |-> "label", used |-> <<1>>]>>}
MCDiskSets == {{}, {0, 1}, {2}}
MCCrtcPorts == {<<976, 16>>}
=============================================================================
