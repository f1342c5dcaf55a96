------------------------------ MODULE MCNeuron ------------------------------
\* A four-pixel neuron, and bounds that let a stream run past the frame.
EXTENDS Neuron
=============================================================================
