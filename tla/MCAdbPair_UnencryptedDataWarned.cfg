CONSTANTS
    Devices <- MCDevices
    MeshDevices <- MCMeshDevices
    meshA = meshA
    meshB = meshB
    lan = lan
    None = None
SPECIFICATION Spec
INVARIANT UnencryptedDataWarned
