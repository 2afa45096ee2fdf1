------------------------------ MODULE MCVirtio ------------------------------
EXTENDS Virtio
=============================================================================
