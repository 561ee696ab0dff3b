CONSTANTS
    node1 = node1
    node2 = node2
    Nodes <- TwoNodes
    MaxFaults = 5
SPECIFICATION FairSpec
PROPERTY ChannelIsServed
