\* A comment of device.cpp, violated when find() passes a chip over.
SPECIFICATION Spec
INVARIANTS LeftAsFound
